---------------------------- MODULE Spec2Model ----------------------------
(***************************************************************************)
(* Model of the analysis core of fund_analysis_akshare:                    *)
(*   src/src/analysis/performance.py       (resampling, metrics, analyzer) *)
(*   src/src/analysis/holding_simulation.py (rolling holding simulation)   *)
(*                                                                         *)
(* Numbers.  The code computes in binary floating point.  The model        *)
(* computes exactly: a net value is a positive integer (a price in some    *)
(* fixed unit), a quotient of two values is a reduced fraction, and the    *)
(* two irrational operations of the code (x ** y and std(x) * sqrt(k)) are *)
(* kept as terms over their exact arguments.  A term is 0 exactly when the *)
(* real number it denotes is 0.                                            *)
(*                                                                         *)
(* Dates.  A date is a day number; day 0 is Monday 2024-01-01.             *)
(***************************************************************************)
EXTENDS Integers, Sequences, FiniteSets, TLC

VARIABLES
    nav_series,     \* the value series handed to the operation (the caller's object)
    call,           \* the operation last invoked, with its arguments
    result,         \* what that invocation returned
    fund_db,        \* the rows the database holds (fund_daily_data, index_daily_data)
    analyzer,       \* the PerformanceAnalyzer: its defaults and its results_cache
    config,         \* the configuration module: COMPOSITE_INDICES
    index_dtype     \* the dtype of the index of the caller's series object

vars == <<nav_series, call, result, fund_db, analyzer, config, index_dtype>>

-----------------------------------------------------------------------------
(* Exact arithmetic *)

Abs(x) == IF x < 0 THEN -x ELSE x

RECURSIVE GCD(_, _)
GCD(a, b) == IF b = 0 THEN a ELSE GCD(b, a % b)

\* The fraction n/d (d > 0), reduced.
Rat(n, d) ==
    LET g == GCD(Abs(n), d) IN [kind |-> "rat", n |-> n \div g, d |-> d \div g]

Zero == Rat(0, 1)
One  == Rat(1, 1)

RatLess(x, y) == x.n * y.d < y.n * x.d
RatLeq(x, y)  == x.n * y.d <= y.n * x.d
RatAdd(x, y)  == Rat(x.n * y.d + y.n * x.d, x.d * y.d)
RatSub(x, y)  == Rat(x.n * y.d - y.n * x.d, x.d * y.d)
RatAbs(x)     == Rat(Abs(x.n), x.d)
RatMul(x, y)  == Rat(x.n * y.n, x.d * y.d)

\* Python's None for an optional date, and a present date.
None == <<>>
Some(x) == <<x>>


\* a - b and a / b on numbers; a term is kept when an operand is not a fraction.
Sub(a, b) ==
    IF a.kind = "rat" /\ b.kind = "rat" THEN RatSub(a, b)
    ELSE IF b = Zero THEN a
    ELSE [kind |-> "sub", a |-> a, b |-> b]

\* A quotient by 0 stays a term: it is no finite number.
Div(a, b) ==
    IF b = Zero THEN [kind |-> "div", num |-> a, den |-> b]
    ELSE IF a = Zero THEN Zero
    ELSE IF a.kind = "rat" /\ b.kind = "rat"
         THEN IF b.n > 0 THEN Rat(a.n * b.d, a.d * b.n)
                         ELSE Rat(-(a.n * b.d), a.d * (-b.n))
    ELSE [kind |-> "div", num |-> a, den |-> b]

\* base ** (1 / years) - 1, base > 0 and years > 0: 1 ** y - 1 is 0.
PowMinus1(base, years) ==
    IF base = One THEN Zero
    ELSE [kind |-> "pow", base |-> base, years |-> years]

\* returns.std() * sqrt(factor) for at least 2 returns.  The sample standard
\* deviation is a function of how often each value occurs; it is 0 exactly
\* when all returns are equal.
Occurrences(returns) ==
    LET vals == {returns[i] : i \in 1..Len(returns)}
    IN  [r \in vals |-> Cardinality({i \in 1..Len(returns) : returns[i] = r})]

StdTimesSqrt(returns, factor) ==
    LET occ == Occurrences(returns) IN
    IF Cardinality(DOMAIN occ) = 1 THEN Zero
    ELSE [kind |-> "vol", returns |-> occ, factor |-> factor]

-----------------------------------------------------------------------------
(* PerformanceAnalyzer: construction defaults and the frequency table *)

Frequencies == {"daily", "weekly", "monthly", "quarterly", "yearly"}

FREQUENCY_TRADING_DAYS ==
    [daily |-> 252, weekly |-> 52, monthly |-> 12, quarterly |-> 4, yearly |-> 1]

trading_days == 252

\* risk_free_rate = 0.02
risk_free_rate == Rat(2, 100)

DaysPerYear == 365

\* FREQUENCY_TRADING_DAYS.get(frequency, self.trading_days)
GetTradingDaysForFrequency(frequency) ==
    IF frequency \in DOMAIN FREQUENCY_TRADING_DAYS
    THEN FREQUENCY_TRADING_DAYS[frequency]
    ELSE trading_days

DEFAULT_RETURN_FREQUENCY == "daily"
DEFAULT_RISK_FREQUENCY == "weekly"

\* An empty dict, and the value of a key that may be missing.
EmptyDict == <<>>

Get(dict, key, default) == IF key \in DOMAIN dict THEN dict[key] ELSE default

\* PerformanceAnalyzer.__init__, with risk_free_rate and trading_days left at
\* their defaults; resample_params is None or Some(dict).
PerformanceAnalyzer(default_return_frequency, default_risk_frequency, resample_params) ==
    [default_return_frequency |-> default_return_frequency,
     default_risk_frequency   |-> default_risk_frequency,
     resample_params |-> IF resample_params = None \/ DOMAIN resample_params[1] = {}
                         THEN EmptyDict ELSE resample_params[1],
     results_cache   |-> EmptyDict]

\* config.COMPOSITE_INDICES: per composite index its components in order, a
\* component being a dict with base_code and weight.
COMPOSITE_INDICES ==
    [MED_INNOV |->
        <<[base_code |-> "000933", weight |-> Rat(8, 10)],
          [base_code |-> "000012", weight |-> Rat(2, 10)]>>,
     CUSTOM_COMPOSITE |->
        <<[base_code |-> "000300", weight |-> Rat(6, 10)],
          [base_code |-> "000001", weight |-> Rat(3, 10)],
          [base_code |-> "HSI", weight |-> Rat(1, 10)]>>]

\* The configuration module as shipped.
BENCHMARK_IDS == <<"000001", "000300", "HSI", "MED_INNOV">>

Config == [COMPOSITE_INDICES |-> COMPOSITE_INDICES, BENCHMARK_IDS |-> BENCHMARK_IDS]

\* config.normalize_index_code: a trailing exchange suffix is cut off.  The
\* codes with a suffix that the specifications use are listed with their
\* stems; every other code they use carries no suffix.
SuffixedCodes ==
    ("000300.SH" :> "000300") @@ ("000001.SH" :> "000001")
    @@ ("HSI.HK" :> "HSI") @@ ("MED_INNOV.SH" :> "MED_INNOV")

normalize_index_code(index_code) == Get(SuffixedCodes, index_code, index_code)

\* config.is_composite_index
is_composite_index(cfg, index_code) ==
    normalize_index_code(index_code) \in DOMAIN cfg.COMPOSITE_INDICES

\* config.get_composite_components
get_composite_components(cfg, index_code) ==
    Get(cfg.COMPOSITE_INDICES, normalize_index_code(index_code), <<>>)

\* The database: per fund the columns nav and cumulative_nav, per index the
\* column close, each column as the series of its non-null rows by date.
EmptyFrame == [nav |-> <<>>, cumulative_nav |-> <<>>]

EmptyDatabase ==
    [funds |-> <<>>, fund_daily_data |-> EmptyDict, index_daily_data |-> EmptyDict]

\* SELECT * FROM funds: the fund ids of the funds table, in table order.
get_all_funds(db) == db.funds

get_fund_daily_data(db, fund_id) ==
    Get(db.fund_daily_data, fund_id, EmptyFrame)

get_index_daily_data(db, index_id) ==
    Get(db.index_daily_data, index_id, <<>>)

-----------------------------------------------------------------------------
(* PerformanceAnalyzer: the metric functions.  A series is a sequence of   *)
(* records [date, value], dates strictly ascending.                        *)

\* nav_series.pct_change().dropna(): the values of the simple returns.
calculate_returns(nav) ==
    [i \in 1..(IF Len(nav) = 0 THEN 0 ELSE Len(nav) - 1) |->
        Rat(nav[i + 1].value - nav[i].value, nav[i].value)]

\* Mutant: the return is taken from the second observation.
calculate_total_return_FromSecond(nav) ==
    IF Len(nav) < 2 THEN Zero
    ELSE Rat(nav[Len(nav)].value - nav[2].value, nav[2].value)

calculate_total_return(nav) ==
    IF Len(nav) < 2 THEN Zero
    ELSE Rat(nav[Len(nav)].value - nav[1].value, nav[1].value)

\* Mutant: the number of points is taken for the number of periods.
AnnualizationYears_PointCount(nav, frequency) ==
    IF frequency = "daily"
    THEN Rat(nav[Len(nav)].date - nav[1].date, DaysPerYear)
    ELSE Rat(Len(nav), GetTradingDaysForFrequency(frequency))

\* The years the code annualizes over.
AnnualizationYears(nav, frequency) ==
    IF frequency = "daily"
    THEN Rat(nav[Len(nav)].date - nav[1].date, DaysPerYear)
    ELSE Rat(Len(nav) - 1, GetTradingDaysForFrequency(frequency))

calculate_annual_return(nav, frequency) ==
    IF Len(nav) < 2 THEN Zero
    ELSE IF nav[Len(nav)].date - nav[1].date <= 0 THEN Zero
    ELSE LET years == AnnualizationYears(nav, frequency) IN
         IF RatLeq(years, Zero) THEN Zero
         ELSE PowMinus1(RatAdd(One, calculate_total_return(nav)), years)

calculate_annual_volatility(nav, frequency) ==
    IF Len(nav) < 2 THEN Zero
    ELSE LET returns == calculate_returns(nav) IN
         IF Len(returns) < 2 THEN Zero
         ELSE StdTimesSqrt(returns, GetTradingDaysForFrequency(frequency))

\* The running maximum over positions lo..hi, given the maximum `before` of
\* the positions before lo (0 when there are none).  The range is halved, so
\* that long series need no deep recursion.
RECURSIVE CumMaxRange(_, _, _, _)
CumMaxRange(nav, lo, hi, before) ==
    IF lo > hi THEN <<>>
    ELSE IF lo = hi
    THEN <<IF nav[lo].value > before THEN nav[lo].value ELSE before>>
    ELSE LET mid == (lo + hi) \div 2
             left == CumMaxRange(nav, lo, mid, before)
         IN  left \o CumMaxRange(nav, mid + 1, hi, left[Len(left)])

\* nav_series.cummax()
CumMax(nav) == CumMaxRange(nav, 1, Len(nav), 0)

\* drawdown = (nav_series - cummax) / cummax
Drawdown(nav) ==
    LET cummax == CumMax(nav)
    IN  [t \in 1..Len(nav) |-> Rat(nav[t].value - cummax[t], cummax[t])]

\* The first position among lo..hi that holds the smallest of drawdown[lo..hi].
RECURSIVE FirstMinPos(_, _, _)
FirstMinPos(drawdown, lo, hi) ==
    IF lo = hi THEN lo
    ELSE LET mid == (lo + hi) \div 2
             l == FirstMinPos(drawdown, lo, mid)
             r == FirstMinPos(drawdown, mid + 1, hi)
         IN  IF RatLess(drawdown[r], drawdown[l]) THEN r ELSE l

\* Mutant: the last position of the smallest drawdown.
IdxMin_Last(drawdown) ==
    CHOOSE t \in 1..Len(drawdown) :
        /\ \A u \in 1..Len(drawdown) : RatLeq(drawdown[t], drawdown[u])
        /\ \A u \in (t + 1)..Len(drawdown) : RatLess(drawdown[t], drawdown[u])

\* drawdown.idxmin(): the first position of the smallest drawdown.
IdxMin(drawdown) == FirstMinPos(drawdown, 1, Len(drawdown))

\* The first position among lo..hi that holds the largest of nav[lo..hi].
RECURSIVE FirstMaxPos(_, _, _)
FirstMaxPos(nav, lo, hi) ==
    IF lo = hi THEN lo
    ELSE LET mid == (lo + hi) \div 2
             l == FirstMaxPos(nav, lo, mid)
             r == FirstMaxPos(nav, mid + 1, hi)
         IN  IF nav[r].value > nav[l].value THEN r ELSE l

\* Mutant: the largest value of the whole series, not of the part up to `last`.
IdxMaxUpTo_WholeSeries(nav, last) == FirstMaxPos(nav, 1, Len(nav))

\* Mutant: the last position of the largest value up to `last`.
IdxMaxUpTo_Last(nav, last) ==
    CHOOSE t \in 1..last :
        /\ \A u \in 1..last : nav[u].value <= nav[t].value
        /\ \A u \in (t + 1)..last : nav[u].value < nav[t].value

\* before_end = nav_series[:end_date]; before_end.idxmax(): the first position
\* of the largest value among the positions up to `last` (slicing by label
\* includes end_date; the slice is never empty).
IdxMaxUpTo(nav, last) == FirstMaxPos(nav, 1, last)

calculate_max_drawdown(nav) ==
    IF Len(nav) < 2
    THEN [max_drawdown |-> Zero, start_date |-> None, end_date |-> None]
    ELSE LET drawdown == Drawdown(nav)
             e == IdxMin(drawdown)
         IN  [max_drawdown |-> drawdown[e],
              start_date   |-> Some(nav[IdxMaxUpTo(nav, e)].date),
              end_date     |-> Some(nav[e].date)]

\* Mutant: no guard against a zero volatility.
calculate_sharpe_ratio_Unguarded(nav, frequency) ==
    IF Len(nav) < 2 THEN Zero
    ELSE Div(Sub(calculate_annual_return(nav, frequency), risk_free_rate),
             calculate_annual_volatility(nav, frequency))

calculate_sharpe_ratio(nav, frequency) ==
    IF Len(nav) < 2 THEN Zero
    ELSE LET annual_return == calculate_annual_return(nav, frequency)
             annual_volatility == calculate_annual_volatility(nav, frequency)
         IN IF annual_volatility = Zero THEN Zero
            ELSE Div(Sub(annual_return, risk_free_rate), annual_volatility)

calculate_calmar_ratio(nav, frequency) ==
    IF Len(nav) < 2 THEN Zero
    ELSE LET annual_return == calculate_annual_return(nav, frequency)
             max_drawdown == calculate_max_drawdown(nav).max_drawdown
         IN IF max_drawdown = Zero THEN Zero
            ELSE Div(annual_return, RatAbs(max_drawdown))

-----------------------------------------------------------------------------
(* Resampling.  The period rules are those the default parameters produce  *)
(* (month_end_rule 'ME', quarter_end_month 12, year_end_month 12, no       *)
(* frequency_rules); week_end_day and method are parameters.               *)

\* The calendar of 2024, 2025 and 2026.
DaysInMonth ==
    <<31, 29, 31, 30, 31, 30, 31, 31, 30, 31, 30, 31,
      31, 28, 31, 30, 31, 30, 31, 31, 30, 31, 30, 31,
      31, 28, 31, 30, 31, 30, 31, 31, 30, 31, 30, 31>>

RECURSIVE DaysBefore(_)
DaysBefore(month) ==
    IF month = 0 THEN 0 ELSE DaysBefore(month - 1) + DaysInMonth[month]

MonthEndDays   == {DaysBefore(m) - 1 : m \in 1..Len(DaysInMonth)}
QuarterEndDays == {DaysBefore(m) - 1 : m \in {k \in 1..Len(DaysInMonth) : k % 3 = 0}}
YearEndDays    == {DaysBefore(m) - 1 : m \in {k \in 1..Len(DaysInMonth) : k % 12 = 0}}

\* The first day of `days` that is not before d.
FirstNotBefore(days, d) ==
    CHOOSE e \in days : e >= d /\ \A f \in days : f >= d => e <= f

\* Day 0 is a Monday.
Weekday == [MON |-> 0, TUE |-> 1, WED |-> 2, THU |-> 3, FRI |-> 4, SAT |-> 5, SUN |-> 6]

\* str(week_end_day).strip().lower(), for the spellings the callers use.
Lower(text) ==
    CASE text = "FRI" -> "fri"
      [] text = "WED" -> "wed"
      [] text = "Wednesday" -> "wednesday"
      [] OTHER -> text

normalize_week_end_day(week_end_day) ==
    LET mapping ==
            [monday |-> "MON", mon |-> "MON", tuesday |-> "TUE", tue |-> "TUE",
             wednesday |-> "WED", wed |-> "WED", thursday |-> "THU", thu |-> "THU",
             friday |-> "FRI", fri |-> "FRI", saturday |-> "SAT", sat |-> "SAT",
             sunday |-> "SUN", sun |-> "SUN"]
    IN  IF week_end_day = "" THEN "FRI"
        ELSE Get(mapping, Lower(week_end_day), week_end_day)

\* The pandas rule of a frequency: W-<day>, ME, Q-DEC, A-DEC, and D for every
\* other tag.
get_resample_rule(frequency, week_end_day) ==
    CASE frequency = "weekly"    -> [offset |-> "W", anchor |-> normalize_week_end_day(week_end_day)]
      [] frequency = "monthly"   -> [offset |-> "ME", anchor |-> ""]
      [] frequency = "quarterly" -> [offset |-> "Q", anchor |-> "DEC"]
      [] frequency = "yearly"    -> [offset |-> "A", anchor |-> "DEC"]
      [] OTHER                   -> [offset |-> "D", anchor |-> ""]

\* The label of the period of `rule` that holds day d: the period's last day.
PeriodEnd(rule, d) ==
    CASE rule.offset = "W"  -> d + ((Weekday[rule.anchor] - d) % 7)
      [] rule.offset = "ME" -> FirstNotBefore(MonthEndDays, d)
      [] rule.offset = "Q"  -> FirstNotBefore(QuarterEndDays, d)
      [] rule.offset = "A"  -> FirstNotBefore(YearEndDays, d)
      [] OTHER              -> d

\* The points of a resampled series: the kept positions of nav, each labelled
\* by the end of its period.
PeriodPoints(nav, rule, kept) ==
    [k \in 1..Len(kept) |->
        [date |-> PeriodEnd(rule, nav[kept[k]].date), value |-> nav[kept[k]].value]]

\* nav_series.resample(rule).last().dropna(): one point per period that holds
\* an observation, labelled by the period's end, valued by its last observation.
ResampleLast(nav, rule) ==
    LET positions == [i \in 1..Len(nav) |-> i]
        IsLastOfPeriod(i) ==
            \/ i = Len(nav)
            \/ PeriodEnd(rule, nav[i + 1].date) # PeriodEnd(rule, nav[i].date)
    IN  PeriodPoints(nav, rule, SelectSeq(positions, IsLastOfPeriod))

\* Mutant: the observation on the period's last day is left to the next period.
CarriedPoints_BeforeLabel(nav, labels) ==
    LET LastUpTo(d) ==
            CHOOSE i \in 1..Len(nav) :
                /\ nav[i].date < d
                /\ \A j \in 1..Len(nav) : nav[j].date < d => j <= i
    IN  [k \in 1..Len(labels) |->
            [date |-> labels[k], value |-> nav[LastUpTo(labels[k])].value]]

\* The value of every label: the last observation of nav up to that day.
CarriedPoints(nav, labels) ==
    LET LastUpTo(d) ==
            CHOOSE i \in 1..Len(nav) :
                /\ nav[i].date <= d
                /\ \A j \in 1..Len(nav) : nav[j].date <= d => j <= i
    IN  [k \in 1..Len(labels) |->
            [date |-> labels[k], value |-> nav[LastUpTo(labels[k])].value]]

\* The period ends of `rule` among the days first..last.
PeriodEndsBetween(rule, first, last) ==
    LET days == [k \in 1..(last - first + 1) |-> first + k - 1]
        IsLabel(d) == PeriodEnd(rule, d) = d
    IN  SelectSeq(days, IsLabel)

\* method 'cum_return': the returns (dated from the second observation on) are
\* compounded per period, over every period from the first to the last return,
\* a period without returns compounding to 0; the rebuilt value of a period is
\* base_nav times the cumulative product, which in exact arithmetic is the last
\* original value observed up to the period's end.
ResampleCumReturn(nav, rule) ==
    IF Len(nav) < 2 THEN <<>>
    ELSE CarriedPoints(nav,
             PeriodEndsBetween(rule, PeriodEnd(rule, nav[2].date),
                               PeriodEnd(rule, nav[Len(nav)].date)))

\* The series of the period rule, by the method asked for.
ResampleBy(nav, rule, method) ==
    IF method = "cum_return" THEN ResampleCumReturn(nav, rule)
    ELSE ResampleLast(nav, rule)

\* nav_series.sort_index(): the points in ascending order of their dates.
InsertByDate(sorted, point) ==
    LET NotAfter(p) == p.date <= point.date
        After(p) == p.date > point.date
    IN  SelectSeq(sorted, NotAfter) \o <<point>> \o SelectSeq(sorted, After)

RECURSIVE SortUpTo(_, _)
SortUpTo(nav, k) ==
    IF k = 0 THEN <<>> ELSE InsertByDate(SortUpTo(nav, k - 1), nav[k])

sort_index(nav) == SortUpTo(nav, Len(nav))

\* Mutant: a daily frequency is resampled like any other, by the rule D.
ResampleSorted_DailyByRule(nav, frequency, resample_params) ==
    ResampleBy(nav,
               get_resample_rule(frequency,
                                 Get(resample_params, "week_end_day", "FRI")),
               Get(resample_params, "method", "last"))

\* _resample_data once the series is sorted: a daily frequency returns it as
\* it is.
ResampleSorted(nav, frequency, resample_params) ==
    IF frequency = "daily" THEN nav
    ELSE ResampleBy(nav,
                    get_resample_rule(frequency,
                                      Get(resample_params, "week_end_day", "FRI")),
                    Get(resample_params, "method", "last"))

\* The dtypes an index of dates can have: datetime64 values, or plain
\* objects (date strings, datetime.date values) that pd.to_datetime parses.
DatetimeIndex == "datetime64[ns]"

ObjectIndex == "object"

IndexDtypes == {DatetimeIndex, ObjectIndex}

\* The index of a Series built without data: object in older versions of the
\* library, a RangeIndex in newer ones.
EmptyIndexDtypes == {ObjectIndex, "int64"}

\* pd.to_datetime on an index: the same dates, as datetime64 values.
to_datetime(dtype) == DatetimeIndex

\* The dtype of the index of the object passed to _resample_data once the
\* call has returned: an empty series is returned untouched, any other has
\* its index replaced by the converted one.
resample_data_index(nav, dtype) ==
    IF Len(nav) = 0 THEN dtype ELSE to_datetime(dtype)

\* _resample_data
resample_data(nav, frequency, resample_params) ==
    IF Len(nav) = 0 THEN nav
    ELSE ResampleSorted(sort_index(nav), frequency, resample_params)

-----------------------------------------------------------------------------
(* PerformanceAnalyzer: the analysis of one subject.  An optional argument *)
(* is None or Some(value); a record of the model leaves out the display    *)
(* name frequency_cn.                                                      *)

\* The three results of calculate_max_drawdown as fields of the metrics.
DrawdownFields(drawdown) ==
    [max_drawdown       |-> drawdown.max_drawdown,
     max_drawdown_start |-> drawdown.start_date,
     max_drawdown_end   |-> drawdown.end_date]

\* The metrics of a resampled series: None when it has fewer than 2 points.
MetricsOf(resampled_nav, frequency) ==
    IF Len(resampled_nav) < 2 THEN None
    ELSE Some([total_return      |-> calculate_total_return(resampled_nav),
               annual_return     |-> calculate_annual_return(resampled_nav, frequency),
               annual_volatility |-> calculate_annual_volatility(resampled_nav, frequency),
               sharpe_ratio      |-> calculate_sharpe_ratio(resampled_nav, frequency),
               calmar_ratio      |-> calculate_calmar_ratio(resampled_nav, frequency),
               start_date        |-> resampled_nav[1].date,
               end_date          |-> resampled_nav[Len(resampled_nav)].date,
               periods           |-> Len(resampled_nav)]
              @@ DrawdownFields(calculate_max_drawdown(resampled_nav)))

\* _calculate_metrics_for_frequency
calculate_metrics_for_frequency(nav, frequency, resample_params) ==
    MetricsOf(resample_data(nav, frequency, resample_params), frequency)

\* An optional string as a condition (None and '' are false), and an optional
\* dict as a condition (None and {} are false).
Truthy(option) == option # None /\ option[1] # ""

TruthyDict(option) == option # None /\ DOMAIN option[1] # {}

\* str() of an optional string, and of an optional dict of resample parameters
\* (written with method before week_end_day).
Str(option) == IF option = None THEN "None" ELSE option[1]

StrDict(option) ==
    IF option = None THEN "None"
    ELSE LET dict == option[1]
             method == IF "method" \in DOMAIN dict
                       THEN "'method': '" \o dict.method \o "'" ELSE ""
             day    == IF "week_end_day" \in DOMAIN dict
                       THEN "'week_end_day': '" \o dict.week_end_day \o "'" ELSE ""
             comma  == IF method # "" /\ day # "" THEN ", " ELSE ""
         IN  "{" \o method \o comma \o day \o "}"

\* The cache key both analyses format; `kind` is 'fund' or 'index'.
CacheKey(kind, id, frequency, return_frequency, risk_frequency, resample_params) ==
    kind \o "_" \o id \o "_" \o Str(frequency) \o "_" \o Str(return_frequency)
         \o "_" \o Str(risk_frequency) \o "_" \o StrDict(resample_params)

\* _resolve_index_id: a legacy code is mapped, any other code normalized.
resolve_index_id(index_id) ==
    LET legacy_map == [INDEX_SSE |-> "000001", INDEX_HS300 |-> "000300",
                       INDEX_HSI |-> "HSI", INDEX_MED_INNOV |-> "MED_INNOV"]
    IN  Get(legacy_map, index_id, normalize_index_code(index_id))

\* Mutant: the volatility is taken from the return-frequency metrics.
MergeMetrics_VolatilityFromReturn(return_freq, risk_freq, return_metrics, risk_metrics) ==
    [frequency          |-> "mixed",
     return_frequency   |-> return_freq,
     risk_frequency     |-> risk_freq,
     total_return       |-> return_metrics.total_return,
     annual_return      |-> return_metrics.annual_return,
     annual_volatility  |-> return_metrics.annual_volatility,
     max_drawdown       |-> risk_metrics.max_drawdown,
     max_drawdown_start |-> risk_metrics.max_drawdown_start,
     max_drawdown_end   |-> risk_metrics.max_drawdown_end,
     sharpe_ratio       |-> risk_metrics.sharpe_ratio,
     calmar_ratio       |-> risk_metrics.calmar_ratio,
     start_date         |-> return_metrics.start_date,
     end_date           |-> return_metrics.end_date,
     periods            |-> return_metrics.periods]

\* The fields both analyses write in mixed-frequency mode.
MergeMetrics(return_freq, risk_freq, return_metrics, risk_metrics) ==
    [frequency          |-> "mixed",
     return_frequency   |-> return_freq,
     risk_frequency     |-> risk_freq,
     total_return       |-> return_metrics.total_return,
     annual_return      |-> return_metrics.annual_return,
     annual_volatility  |-> risk_metrics.annual_volatility,
     max_drawdown       |-> risk_metrics.max_drawdown,
     max_drawdown_start |-> risk_metrics.max_drawdown_start,
     max_drawdown_end   |-> risk_metrics.max_drawdown_end,
     sharpe_ratio       |-> risk_metrics.sharpe_ratio,
     calmar_ratio       |-> risk_metrics.calmar_ratio,
     start_date         |-> return_metrics.start_date,
     end_date           |-> return_metrics.end_date,
     periods            |-> return_metrics.periods]

\* The record of single-frequency mode, {} when the metrics are None.
SingleRecord(ids, frequency, metrics) ==
    IF metrics = None THEN EmptyDict
    ELSE ids @@ [frequency |-> frequency] @@ metrics[1]

\* Mutant: the two ratios are taken from the return-frequency metrics.
MixedRecord_RatiosFromReturn(ids, return_freq, risk_freq, return_metrics, risk_metrics) ==
    IF return_metrics = None \/ risk_metrics = None THEN EmptyDict
    ELSE ids @@ MergeMetrics(return_freq, risk_freq, return_metrics[1],
                             [risk_metrics[1] EXCEPT
                                 !.sharpe_ratio = return_metrics[1].sharpe_ratio,
                                 !.calmar_ratio = return_metrics[1].calmar_ratio])

\* The record of mixed-frequency mode, {} when either metrics are None.
MixedRecord(ids, return_freq, risk_freq, return_metrics, risk_metrics) ==
    IF return_metrics = None \/ risk_metrics = None THEN EmptyDict
    ELSE ids @@ MergeMetrics(return_freq, risk_freq, return_metrics[1], risk_metrics[1])

\* The analysis with the frequencies and parameters in force.
AnalyzeWith(nav, ids, frequency, return_freq, risk_freq, params) ==
    IF Truthy(frequency)
    THEN SingleRecord(ids, frequency[1],
                      calculate_metrics_for_frequency(nav, frequency[1], params))
    ELSE MixedRecord(ids, return_freq, risk_freq,
                     calculate_metrics_for_frequency(nav, return_freq, params),
                     calculate_metrics_for_frequency(nav, risk_freq, params))

\* The part of both analyses after the value series is read: `ids` are the
\* fields that name the subject.  Returns the record, {} when data is short.
AnalyzeSeries(self, nav, ids, frequency, return_frequency, risk_frequency, resample_params) ==
    IF Len(nav) < 2 THEN EmptyDict
    ELSE AnalyzeWith(nav, ids, frequency,
             IF Truthy(return_frequency) THEN return_frequency[1]
             ELSE self.default_return_frequency,
             IF Truthy(risk_frequency) THEN risk_frequency[1]
             ELSE self.default_risk_frequency,
             IF TruthyDict(resample_params) THEN resample_params[1]
             ELSE self.resample_params)

\* What a call returns and the cache it leaves: a cached record is returned
\* as it is, a new non-empty record is cached.
Cached(self, cache_key, results) ==
    IF cache_key \in DOMAIN self.results_cache
    THEN [result |-> self.results_cache[cache_key],
          results_cache |-> self.results_cache]
    ELSE [result |-> results,
          results_cache |-> IF DOMAIN results = {} THEN self.results_cache
                            ELSE (cache_key :> results) @@ self.results_cache]

\* The value series of a fund's rows and the fields that name the fund.
FundSeries(df) == IF Len(df.cumulative_nav) > 0 THEN df.cumulative_nav ELSE df.nav

FundIds(fund_id, df) ==
    [fund_id  |-> fund_id,
     nav_type |-> IF Len(df.cumulative_nav) > 0 THEN "cumulative" ELSE "nav"]

AnalyzeFund(self, df, fund_id, frequency, return_frequency, risk_frequency, resample_params) ==
    AnalyzeSeries(self, FundSeries(df), FundIds(fund_id, df), frequency,
                  return_frequency, risk_frequency, resample_params)

analyze_fund_performance(self, db, fund_id, frequency, return_frequency, risk_frequency, resample_params) ==
    Cached(self,
           CacheKey("fund", fund_id, frequency, return_frequency, risk_frequency,
                    resample_params),
           AnalyzeFund(self, get_fund_daily_data(db, fund_id), fund_id, frequency,
                       return_frequency, risk_frequency, resample_params))

\* The fields that name an index.
IndexIds(index_id, actual_index_id) ==
    [fund_id |-> index_id, actual_index_id |-> actual_index_id]

AnalyzeIndex(self, db, index_id, actual_index_id, frequency, return_frequency, risk_frequency, resample_params) ==
    AnalyzeSeries(self, get_index_daily_data(db, actual_index_id),
                  IndexIds(index_id, actual_index_id), frequency,
                  return_frequency, risk_frequency, resample_params)

analyze_index_performance(self, db, index_id, frequency, return_frequency, risk_frequency, resample_params) ==
    Cached(self,
           CacheKey("index", index_id, frequency, return_frequency, risk_frequency,
                    resample_params),
           AnalyzeIndex(self, db, index_id, resolve_index_id(index_id), frequency,
                        return_frequency, risk_frequency, resample_params))

\* The state of a batch loop: the records collected so far and the cache.
NoRows(self) == [rows |-> <<>>, results_cache |-> self.results_cache]

\* Mutant: a record is put before the records collected so far.
Collected_Prepended(before, out) ==
    [rows          |-> IF DOMAIN out.result = {} THEN before.rows
                       ELSE <<out.result>> \o before.rows,
     results_cache |-> out.results_cache]

\* if performance: results.append(performance)
Collected(before, out) ==
    [rows          |-> IF DOMAIN out.result = {} THEN before.rows
                       ELSE Append(before.rows, out.result),
     results_cache |-> out.results_cache]

\* One pass of the loop of analyze_all_funds, on the cache the passes before
\* left.
CollectFund(self, db, before, fund_id, args) ==
    Collected(before,
              analyze_fund_performance(
                  [self EXCEPT !.results_cache = before.results_cache], db, fund_id,
                  args.frequency, args.return_frequency, args.risk_frequency,
                  args.resample_params))

RECURSIVE CollectFunds(_, _, _, _, _)
CollectFunds(self, db, fund_ids, k, args) ==
    IF k = 0 THEN NoRows(self)
    ELSE CollectFund(self, db, CollectFunds(self, db, fund_ids, k - 1, args),
                     fund_ids[k], args)

\* analyze_all_funds; fund_ids is None or Some(list), args holds frequency,
\* return_frequency, risk_frequency and resample_params.  The frame returned
\* is the sequence of its rows.
analyze_all_funds(self, db, fund_ids, args) ==
    IF fund_ids = None
    THEN CollectFunds(self, db, get_all_funds(db), Len(get_all_funds(db)), args)
    ELSE CollectFunds(self, db, fund_ids[1], Len(fund_ids[1]), args)

\* One pass of the loop of analyze_all_indices.
CollectIndex(self, db, before, index_id, args) ==
    Collected(before,
              analyze_index_performance(
                  [self EXCEPT !.results_cache = before.results_cache], db, index_id,
                  args.frequency, args.return_frequency, args.risk_frequency,
                  args.resample_params))

RECURSIVE CollectIndices(_, _, _, _, _)
CollectIndices(self, db, index_ids, k, args) ==
    IF k = 0 THEN NoRows(self)
    ELSE CollectIndex(self, db, CollectIndices(self, db, index_ids, k - 1, args),
                      index_ids[k], args)

\* analyze_all_indices: the indices are config.BENCHMARK_IDS.
analyze_all_indices(self, cfg, db, args) ==
    CollectIndices(self, db, cfg.BENCHMARK_IDS, Len(cfg.BENCHMARK_IDS), args)

-----------------------------------------------------------------------------
(* HoldingSimulation.  The simulator is built with the same risk_free_rate *)
(* and trading_days as the analyzer it owns.                               *)

DefaultMinDataPoints == 10
RelaxedHoldingDays == 360
RelaxedBuffer == 5
DefaultHoldingPeriods == <<30, 60, 90, 180, 360>>

\* The 1-based position Python's index k names in a sequence of length n
\* (a negative k counts from the end), or 0 where Python raises IndexError.
PyPos(n, k) ==
    IF 0 <= k /\ k < n THEN k + 1
    ELSE IF -n <= k /\ k < 0 THEN n + k + 1
    ELSE 0

\* Python's bound of a slice: a negative bound counts from the end, and a
\* bound outside the sequence is clipped.
PyBound(n, k) ==
    IF k < 0 THEN (IF n + k < 0 THEN 0 ELSE n + k)
    ELSE IF k > n THEN n ELSE k

\* nav_series.iloc[a:b]
PySlice(nav, a, b) ==
    SubSeq(nav, PyBound(Len(nav), a) + 1, PyBound(Len(nav), b))

IndexError == [status |-> "IndexError", rows |-> <<>>]
EmptyDataFrame == [status |-> "ok", rows |-> <<>>]

\* Mutant: the holding window leaves out the selling point.
SimulationRow_WindowShort(nav, i, holding_days) ==
    LET buy  == PyPos(Len(nav), i)
        sell == PyPos(Len(nav), i + holding_days)
        holding_nav == PySlice(nav, i, i + holding_days)
    IN
    IF buy = 0 \/ sell = 0 \/ holding_nav = <<>> THEN IndexError
    ELSE [buy_date |-> nav[buy].date,
          sell_date |-> nav[sell].date,
          holding_days |-> holding_days,
          holding_return |->
              Rat(holding_nav[Len(holding_nav)].value - holding_nav[1].value,
                  holding_nav[1].value),
          annual_return |-> Zero,
          annual_volatility |-> Zero,
          max_drawdown |-> calculate_max_drawdown(holding_nav).max_drawdown,
          sharpe_ratio |-> Zero,
          days_held |-> nav[sell].date - nav[buy].date]

\* One pass of the loop over the buying points: the row for buying at Python
\* index i, or IndexError.
SimulationRow(nav, i, holding_days) ==
    LET buy  == PyPos(Len(nav), i)
        sell == PyPos(Len(nav), i + holding_days)
        holding_nav == PySlice(nav, i, i + holding_days + 1)
    IN
    IF buy = 0 \/ sell = 0 \/ holding_nav = <<>> THEN IndexError
    ELSE
    LET buy_date  == nav[buy].date
        sell_date == nav[sell].date
        holding_return ==
            Rat(holding_nav[Len(holding_nav)].value - holding_nav[1].value,
                holding_nav[1].value)
        holding_max_dd == calculate_max_drawdown(holding_nav).max_drawdown
        days_held == sell_date - buy_date
        annual_return ==
            IF days_held > 0
            THEN PowMinus1(RatAdd(One, holding_return), Rat(days_held, trading_days))
            ELSE Zero
        holding_returns == calculate_returns(holding_nav)
        annual_vol ==
            IF Len(holding_returns) > 1
            THEN StdTimesSqrt(holding_returns, trading_days)
            ELSE Zero
        sharpe_ratio ==
            IF annual_vol # Zero
            THEN Div(Sub(annual_return,
                         RatMul(risk_free_rate, Rat(holding_days, trading_days))),
                     annual_vol)
            ELSE Zero
    IN  [buy_date |-> buy_date,
         sell_date |-> sell_date,
         holding_days |-> holding_days,
         holding_return |-> holding_return,
         annual_return |-> annual_return,
         annual_volatility |-> annual_vol,
         max_drawdown |-> holding_max_dd,
         sharpe_ratio |-> sharpe_ratio,
         days_held |-> days_held]

\* Mutant: no relaxed requirement for any holding length.
RequiredPoints_NoRelaxation(holding_days, min_data_points) ==
    holding_days + min_data_points

\* The length check of simulate_holding_period.
RequiredPoints(holding_days, min_data_points) ==
    IF holding_days = RelaxedHoldingDays
    THEN holding_days + RelaxedBuffer
    ELSE holding_days + min_data_points

\* Mutant: the loop stops one buying point early.
simulate_holding_period_ShortLoop(nav, holding_days, min_data_points) ==
    IF Len(nav) < RequiredPoints(holding_days, min_data_points)
    THEN EmptyDataFrame
    ELSE LET count == IF Len(nav) - holding_days - 1 < 0 THEN 0
                      ELSE Len(nav) - holding_days - 1
             rows == [k \in 1..count |-> SimulationRow(nav, k - 1, holding_days)]
         IN  IF \E k \in 1..count : rows[k] = IndexError THEN IndexError
             ELSE [status |-> "ok", rows |-> rows]

simulate_holding_period(nav, holding_days, min_data_points) ==
    IF Len(nav) < RequiredPoints(holding_days, min_data_points)
    THEN EmptyDataFrame
    ELSE LET count == IF Len(nav) - holding_days < 0 THEN 0
                      ELSE Len(nav) - holding_days
             rows == [k \in 1..count |-> SimulationRow(nav, k - 1, holding_days)]
         IN  IF \E k \in 1..count : rows[k] = IndexError THEN IndexError
             ELSE [status |-> "ok", rows |-> rows]

\* The results simulate_multiple_periods keeps of the simulations it ran:
\* the non-empty ones, keyed by holding length.
KeptResults(periods, sims) ==
    IF \E k \in 1..Len(periods) : sims[k] = IndexError
    THEN [status |-> "IndexError", results |-> <<>>]
    ELSE [status |-> "ok",
          results |->
              [d \in {periods[k] : k \in {j \in 1..Len(periods) : sims[j].rows # <<>>}} |->
                  sims[CHOOSE k \in 1..Len(periods) : periods[k] = d].rows]]

\* simulate_multiple_periods: the non-empty results keyed by holding length;
\* an exception of one simulation ends the call.
simulate_multiple_periods(nav, holding_periods) ==
    LET periods == IF holding_periods = None THEN DefaultHoldingPeriods
                   ELSE holding_periods[1]
    IN  KeptResults(periods,
                    [k \in 1..Len(periods) |->
                        simulate_holding_period(nav, periods[k], DefaultMinDataPoints)])

-----------------------------------------------------------------------------
(* HoldingSimulation: the benchmark return sequences and the holding       *)
(* analyses with their summaries.                                          *)

\* The data the two benchmark methods ask for beyond the holding length.
BenchmarkBuffer == 10

\* One pass of the loop of the benchmark methods: the return of buying at
\* Python index i, or IndexError.
BenchmarkReturn(nav, i, holding_days) ==
    LET buy  == PyPos(Len(nav), i)
        sell == PyPos(Len(nav), i + holding_days)
    IN  IF buy = 0 \/ sell = 0 THEN IndexError
        ELSE Rat(nav[sell].value - nav[buy].value, nav[buy].value)

\* The body both benchmark methods share once the rows are read: a Series
\* is the sequence of its values.
BenchmarkReturns(nav, holding_days) ==
    IF Len(nav) = 0 \/ Len(nav) < holding_days + BenchmarkBuffer
    THEN EmptyDataFrame
    ELSE LET count == IF Len(nav) - holding_days < 0 THEN 0
                      ELSE Len(nav) - holding_days
             rows == [k \in 1..count |-> BenchmarkReturn(nav, k - 1, holding_days)]
         IN  IF \E k \in 1..count : rows[k] = IndexError THEN IndexError
             ELSE [status |-> "ok", rows |-> rows]

calculate_holding_returns(db, benchmark_id, holding_days) ==
    BenchmarkReturns(get_index_daily_data(db, benchmark_id), holding_days)

get_benchmark_returns(db, index_id, holding_days) ==
    BenchmarkReturns(get_index_daily_data(db, index_id), holding_days)

\* The holding analyses ask for this many values.
MinAnalysisPoints == 100

\* A column of a frame: the sequence of one field of its rows.
Column(rows, field) == [k \in 1..Len(rows) |-> rows[k][field]]

\* The sum of the values of a column at the positions lo..hi, by halves.
RECURSIVE RatSum(_, _, _)
RatSum(col, lo, hi) ==
    IF lo > hi THEN Zero
    ELSE IF lo = hi THEN col[lo]
    ELSE RatAdd(RatSum(col, lo, (lo + hi) \div 2),
                RatSum(col, (lo + hi) \div 2 + 1, hi))

\* Series.mean()
SeriesMean(col) == RatMul(RatSum(col, 1, Len(col)), Rat(1, Len(col)))

\* The k-th smallest value of a column.
OrderStatistic(col, k) ==
    CHOOSE v \in {col[i] : i \in 1..Len(col)} :
        /\ Cardinality({i \in 1..Len(col) : RatLess(col[i], v)}) < k
        /\ Cardinality({i \in 1..Len(col) : RatLeq(col[i], v)}) >= k

\* Series.median(): the middle value, or the mean of the two middle values.
SeriesMedian(col) ==
    IF Len(col) % 2 = 1 THEN OrderStatistic(col, (Len(col) + 1) \div 2)
    ELSE RatMul(RatAdd(OrderStatistic(col, Len(col) \div 2),
                       OrderStatistic(col, Len(col) \div 2 + 1)),
                Rat(1, 2))

SeriesMin(col) == OrderStatistic(col, 1)

SeriesMax(col) == OrderStatistic(col, Len(col))

\* Mutant: a return of zero counts as a win.
PositiveShare_WithZero(col) ==
    Rat(Cardinality({i \in 1..Len(col) : RatLeq(Zero, col[i])}), Len(col))

\* (column > 0).mean()
PositiveShare(col) ==
    Rat(Cardinality({i \in 1..Len(col) : RatLess(Zero, col[i])}), Len(col))

\* Series.std(), and the mean of a column of ratios that are not reduced to
\* numbers: kept as terms over the column.
SeriesStd(col) == [kind |-> "std", of |-> col]

TermMean(col) == [kind |-> "mean", of |-> col]

\* The summary of one holding length.
HoldingSummary(rows) ==
    [count          |-> Len(rows),
     mean_return    |-> SeriesMean(Column(rows, "holding_return")),
     median_return  |-> SeriesMedian(Column(rows, "holding_return")),
     std_return     |-> SeriesStd(Column(rows, "holding_return")),
     min_return     |-> SeriesMin(Column(rows, "holding_return")),
     max_return     |-> SeriesMax(Column(rows, "holding_return")),
     positive_ratio |-> PositiveShare(Column(rows, "holding_return")),
     mean_sharpe    |-> TermMean(Column(rows, "sharpe_ratio")),
     mean_max_dd    |-> SeriesMean(Column(rows, "max_drawdown")),
     win_rate       |-> PositiveShare(Column(rows, "holding_return"))]

\* The summaries of the simulation results, keyed by holding length.
Summaries(simulation_results) ==
    [d \in DOMAIN simulation_results |-> HoldingSummary(simulation_results[d])]

\* The statistics of one benchmark for one holding length.
BenchmarkSummary(col) ==
    [count          |-> Len(col),
     mean_return    |-> SeriesMean(col),
     median_return  |-> SeriesMedian(col),
     std_return     |-> SeriesStd(col),
     min_return     |-> SeriesMin(col),
     max_return     |-> SeriesMax(col),
     positive_ratio |-> PositiveShare(col),
     win_rate       |-> PositiveShare(col),
     returns_series |-> col]

\* The statistics of one benchmark, keyed by the holding lengths that have
\* returns; an exception of one of the calls ends the analysis.
BenchmarkStatistics(periods, returns) ==
    IF \E k \in 1..Len(periods) : returns[k] = IndexError
    THEN [status |-> "IndexError", results |-> <<>>]
    ELSE [status |-> "ok",
          results |->
              [d \in {periods[k] : k \in {j \in 1..Len(periods) : returns[j].rows # <<>>}} |->
                  BenchmarkSummary(
                      returns[CHOOSE k \in 1..Len(periods) : periods[k] = d].rows)]]

BenchmarkResult(db, actual_code, periods) ==
    BenchmarkStatistics(periods,
                        [k \in 1..Len(periods) |->
                            calculate_holding_returns(db, actual_code, periods[k])])

BenchmarkResults(db, benchmark_ids, periods) ==
    [b \in {benchmark_ids[k] : k \in 1..Len(benchmark_ids)} |->
        BenchmarkResult(db, normalize_index_code(b), periods)]

\* What a holding analysis returns on an exception of a simulation.
Raises(status) == [status |-> status]

\* The value series analyze_fund_holding selects.
HoldingSeries(df, use_cumulative) ==
    IF use_cumulative /\ Len(df.cumulative_nav) > 0 THEN df.cumulative_nav
    ELSE df.nav

HoldingNavType(df, use_cumulative) ==
    IF use_cumulative /\ Len(df.cumulative_nav) > 0 THEN "cumulative" ELSE "nav"

\* What analyze_fund_holding returns once the simulations and the
\* benchmark statistics are computed.
FundHoldingResult(fund_id, nav, nav_type, benchmark_ids, sims, benchmark_results) ==
    IF \E b \in DOMAIN benchmark_results : benchmark_results[b].status # "ok"
    THEN Raises("IndexError")
    ELSE [fund_id            |-> fund_id,
          nav_type           |-> nav_type,
          total_days         |-> Len(nav),
          start_date         |-> nav[1].date,
          end_date           |-> nav[Len(nav)].date,
          simulation_results |-> sims.results,
          summary            |-> Summaries(sims.results),
          benchmark_results  |->
              [b \in DOMAIN benchmark_results |-> benchmark_results[b].results],
          benchmark_ids      |-> benchmark_ids]

\* The part of analyze_fund_holding after the length check.
FundHolding(cfg, db, fund_id, nav, nav_type, periods, benchmark_ids, sims) ==
    IF sims.status # "ok" THEN Raises(sims.status)
    ELSE FundHoldingResult(fund_id, nav, nav_type, benchmark_ids, sims,
                           BenchmarkResults(db, benchmark_ids, periods))

\* analyze_fund_holding; holding_periods and benchmark_ids are None or
\* Some(list).
analyze_fund_holding(cfg, db, fund_id, holding_periods, use_cumulative, benchmark_ids) ==
    LET df == get_fund_daily_data(db, fund_id) IN
    IF df = EmptyFrame THEN EmptyDict
    ELSE IF Len(HoldingSeries(df, use_cumulative)) < MinAnalysisPoints THEN EmptyDict
    ELSE FundHolding(cfg, db, fund_id, HoldingSeries(df, use_cumulative),
                     HoldingNavType(df, use_cumulative),
                     IF holding_periods = None THEN DefaultHoldingPeriods
                     ELSE holding_periods[1],
                     IF benchmark_ids = None THEN cfg.BENCHMARK_IDS
                     ELSE benchmark_ids[1],
                     simulate_multiple_periods(HoldingSeries(df, use_cumulative),
                                               Some(IF holding_periods = None
                                                    THEN DefaultHoldingPeriods
                                                    ELSE holding_periods[1])))

\* The part of analyze_index_holding after the length check.
IndexHolding(index_id, nav, sims) ==
    IF sims.status # "ok" THEN Raises(sims.status)
    ELSE [index_id           |-> index_id,
          total_days         |-> Len(nav),
          start_date         |-> nav[1].date,
          end_date           |-> nav[Len(nav)].date,
          simulation_results |-> sims.results,
          summary            |-> Summaries(sims.results)]

analyze_index_holding(db, index_id, holding_periods) ==
    IF Len(get_index_daily_data(db, index_id)) < MinAnalysisPoints THEN EmptyDict
    ELSE IndexHolding(index_id, get_index_daily_data(db, index_id),
                      simulate_multiple_periods(get_index_daily_data(db, index_id),
                                                holding_periods))

-----------------------------------------------------------------------------
(* Input series of the metric functions *)

MaxLen == 4
MaxVal == 3

NavValues == 1..MaxVal

\* Observations fall on consecutive trading days (Monday to Friday); a series
\* starts on a Monday (day 0) or on a Thursday (day 3), so that it may run over
\* a weekend.
StartDays == {0, 3}

\* The i-th trading day of a series that starts on the weekday `start`.
TradingDay(start, i) ==
    LET k == (start % 7) + (i - 1)
    IN  (start - (start % 7)) + 7 * (k \div 5) + (k % 5)

MkSeries(values, start) ==
    [i \in 1..Len(values) |-> [date |-> TradingDay(start, i), value |-> values[i]]]

SeqsOf(S, n) == [1..n -> S]

SeriesOfLen(n) ==
    {MkSeries(v, s) : v \in SeqsOf(NavValues, n), s \in StartDays}

\* Scenario A (1.0, 1.1, 1.21) and scenario B (1.0, 0.9, 0.95), in units in
\* which the values are whole numbers.
ScenarioA == MkSeries(<<100, 110, 121>>, 0)
ScenarioB == MkSeries(<<20, 18, 19>>, 0)

InputSeries == UNION {SeriesOfLen(n) : n \in 0..MaxLen} \cup {ScenarioA, ScenarioB}

\* Frequency tags a caller may pass: the five known ones and an unknown one.
FrequencyArgs == Frequencies \cup {"hourly"}

NoCall == [op |-> "none"]

-----------------------------------------------------------------------------
(* Specification of the metric functions: each action is one call on the   *)
(* series the caller holds.                                                *)

Init ==
    /\ nav_series \in InputSeries
    /\ call = NoCall
    /\ result = None
    /\ fund_db = EmptyDatabase
    /\ analyzer = PerformanceAnalyzer(DEFAULT_RETURN_FREQUENCY,
                                      DEFAULT_RISK_FREQUENCY, None)
    /\ config = Config
    /\ index_dtype = DatetimeIndex

CalculateTotalReturn ==
    /\ call' = [op |-> "calculate_total_return"]
    /\ result' = calculate_total_return(nav_series)
    /\ UNCHANGED <<nav_series, fund_db, analyzer, config, index_dtype>>

CalculateAnnualReturn ==
    \E frequency \in FrequencyArgs :
        /\ call' = [op |-> "calculate_annual_return", frequency |-> frequency]
        /\ result' = calculate_annual_return(nav_series, frequency)
        /\ UNCHANGED <<nav_series, fund_db, analyzer, config, index_dtype>>

CalculateAnnualVolatility ==
    \E frequency \in FrequencyArgs :
        /\ call' = [op |-> "calculate_annual_volatility", frequency |-> frequency]
        /\ result' = calculate_annual_volatility(nav_series, frequency)
        /\ UNCHANGED <<nav_series, fund_db, analyzer, config, index_dtype>>

CalculateMaxDrawdown ==
    /\ call' = [op |-> "calculate_max_drawdown"]
    /\ result' = calculate_max_drawdown(nav_series)
    /\ UNCHANGED <<nav_series, fund_db, analyzer, config, index_dtype>>

CalculateSharpeRatio ==
    \E frequency \in FrequencyArgs :
        /\ call' = [op |-> "calculate_sharpe_ratio", frequency |-> frequency]
        /\ result' = calculate_sharpe_ratio(nav_series, frequency)
        /\ UNCHANGED <<nav_series, fund_db, analyzer, config, index_dtype>>

CalculateCalmarRatio ==
    \E frequency \in FrequencyArgs :
        /\ call' = [op |-> "calculate_calmar_ratio", frequency |-> frequency]
        /\ result' = calculate_calmar_ratio(nav_series, frequency)
        /\ UNCHANGED <<nav_series, fund_db, analyzer, config, index_dtype>>

Next ==
    \/ CalculateTotalReturn
    \/ CalculateAnnualReturn
    \/ CalculateAnnualVolatility
    \/ CalculateMaxDrawdown
    \/ CalculateSharpeRatio
    \/ CalculateCalmarRatio

Spec == Init /\ [][Next]_vars

-----------------------------------------------------------------------------
(* Vocabulary of the properties, defined without the operators above *)

Values(nav) == [i \in 1..Len(nav) |-> nav[i].value]

NonDecreasing(nav) ==
    \A i, j \in 1..Len(nav) : i <= j => nav[i].value <= nav[j].value

\* M_t: the largest value among positions 1..t.
RunningMax(nav, t) ==
    CHOOSE m \in {nav[u].value : u \in 1..t} : \A u \in 1..t : nav[u].value <= m

\* (S_t - M_t) / M_t
DrawdownAt(nav, t) == Rat(nav[t].value - RunningMax(nav, t), RunningMax(nav, t))

\* The positions at which the drawdown is smallest.
Troughs(nav) ==
    {t \in 1..Len(nav) :
        \A u \in 1..Len(nav) : RatLeq(DrawdownAt(nav, t), DrawdownAt(nav, u))}

\* The positions up to `e` that hold the largest value of positions 1..e.
PeaksUpTo(nav, e) == {t \in 1..e : nav[t].value = RunningMax(nav, e)}

SetMin(S) == CHOOSE x \in S : \A y \in S : x <= y
SetMax(S) == CHOOSE x \in S : \A y \in S : y <= x

HasDrawdown(nav) == Len(nav) >= 2 /\ ~NonDecreasing(nav)

PositionOf(nav, d) == CHOOSE i \in 1..Len(nav) : nav[i].date = d

\* The series with the value at position i replaced by v.
WithValue(nav, i, v) == [nav EXCEPT ![i].value = v]

-----------------------------------------------------------------------------
(* C4 *)

-----------------------------------------------------------------------------
(* C5 *)

\* C5: for every series of positive values the drawdown returned lies in
\* [-1, 0]; when dates are returned, start <= end and the value at the end
\* date is at most the value at the start date.
C5_DrawdownRange ==
    call.op = "calculate_max_drawdown" =>
        /\ RatLeq(Rat(-1, 1), result.max_drawdown)
        /\ RatLeq(result.max_drawdown, Zero)
        /\ (result.start_date # None /\ result.end_date # None) =>
              LET s == result.start_date[1]
                  e == result.end_date[1]
              IN  /\ s <= e
                  /\ nav_series[PositionOf(nav_series, e)].value
                        <= nav_series[PositionOf(nav_series, s)].value

C5_Witness ==
    /\ call.op = "calculate_max_drawdown"
    /\ Len(nav_series) = MaxLen
    /\ RatLess(result.max_drawdown, Zero)
    /\ result.start_date # None
    /\ result.start_date[1] < result.end_date[1]
    /\ \E t \in 1..Len(nav_series) :
          nav_series[t].date > result.end_date[1]
          /\ nav_series[t].value > nav_series[1].value

-----------------------------------------------------------------------------
(* C6 *)

\* What C6 expects of a series with a real drawdown, with `start` the
\* position the start date is to name.
C6_Expected(nav, res, start) ==
    /\ res.max_drawdown = DrawdownAt(nav, SetMin(Troughs(nav)))
    /\ res.end_date = Some(nav[SetMin(Troughs(nav))].date)
    /\ res.start_date = Some(nav[start].date)

\* C6 as stated: the start is the peak immediately preceding the trough, also
\* when the peak value occurs more than once before the trough.
C6_AsStated ==
    (call.op = "calculate_max_drawdown" /\ HasDrawdown(nav_series)) =>
        C6_Expected(nav_series, result,
                    SetMax(PeaksUpTo(nav_series, SetMin(Troughs(nav_series)))))

\* C6 (amended): max_drawdown = min over t of (S_t - M_t)/M_t, end = the first
\* position where that minimum is attained, start = the first position at
\* which the maximum of S over positions <= end is attained (the earliest
\* occurrence of the peak value, not the one nearest the trough); for
\* S = (1.0, 0.9, 0.95) this gives -0.10, start index 0, end index 1.
C6_DrawdownDefinition ==
    (call.op = "calculate_max_drawdown" /\ HasDrawdown(nav_series)) =>
        /\ C6_Expected(nav_series, result,
                       SetMin(PeaksUpTo(nav_series, SetMin(Troughs(nav_series)))))
        /\ nav_series = ScenarioB =>
              result = [max_drawdown |-> Rat(-1, 10),
                        start_date |-> Some(ScenarioB[1].date),
                        end_date |-> Some(ScenarioB[2].date)]

\* The peak value occurs twice before the trough.
C6_Witness ==
    /\ call.op = "calculate_max_drawdown"
    /\ Values(nav_series) = <<3, 2, 3, 1>>
    /\ result.start_date = Some(nav_series[1].date)
    /\ result.end_date = Some(nav_series[4].date)

-----------------------------------------------------------------------------
(* C7 *)

\* C7: calculate_total_return(S) is S[last]/S[first] - 1 for a series of at
\* least 2 points (stated as (1 + r) * S[first] = S[last]) and 0 for a shorter
\* one, and no other element of S changes it.
C7_TotalReturn ==
    call.op = "calculate_total_return" =>
        LET n == Len(nav_series) IN
        /\ n < 2 => result = Zero
        /\ n >= 2 =>
              /\ result.kind = "rat"
              /\ (result.n + result.d) * nav_series[1].value
                    = nav_series[n].value * result.d
              /\ \A i \in 2..(n - 1) : \A v \in NavValues :
                    calculate_total_return(WithValue(nav_series, i, v)) = result

C7_Witness ==
    /\ call.op = "calculate_total_return"
    /\ Values(nav_series) = <<2, 1, 3>>
    /\ result = Rat(1, 2)

-----------------------------------------------------------------------------
(* C8 *)

ElapsedDays(nav) == nav[Len(nav)].date - nav[1].date

\* (1 + total_return) ** (1 / years) - 1, and 0 when years <= 0 or the series
\* has fewer than 2 points; `daily_years` is the number of years for Daily.
C8_Expected(nav, frequency, daily_years) ==
    IF Len(nav) < 2 THEN Zero
    ELSE LET years == IF frequency = "daily" THEN daily_years
                      ELSE Rat(Len(nav) - 1, FREQUENCY_TRADING_DAYS[frequency])
         IN  IF RatLeq(years, Zero) THEN Zero
             ELSE PowMinus1(Rat(nav[Len(nav)].value, nav[1].value), years)

\* C8 as stated: for Daily, years = elapsed calendar days / 365.25.
C8_AsStated ==
    (call.op = "calculate_annual_return" /\ call.frequency \in Frequencies) =>
        result = C8_Expected(nav_series, call.frequency,
                             IF Len(nav_series) < 2 THEN Zero
                             ELSE Rat(ElapsedDays(nav_series) * 100, 36525))

\* C8 (amended): years = elapsed calendar days / 365 for Daily and
\* (number of points - 1) / annualization factor (52, 12, 4, 1) for every
\* other frequency; the result is (1 + total_return) ** (1 / years) - 1, and
\* 0 when years <= 0 or the series has fewer than 2 points.
C8_AnnualReturn ==
    (call.op = "calculate_annual_return" /\ call.frequency \in Frequencies) =>
        result = C8_Expected(nav_series, call.frequency,
                             IF Len(nav_series) < 2 THEN Zero
                             ELSE Rat(ElapsedDays(nav_series), 365))

\* Thursday to Monday: 2 periods over 4 calendar days, at Daily frequency.
C8_Witness ==
    /\ call = [op |-> "calculate_annual_return", frequency |-> "daily"]
    /\ Values(nav_series) = <<1, 2, 3>>
    /\ ElapsedDays(nav_series) = 4
    /\ result = [kind |-> "pow", base |-> Rat(3, 1), years |-> Rat(4, 365)]

-----------------------------------------------------------------------------
(* C9 *)

IsNumber(x) == x.kind \in {"rat", "pow", "vol", "sub", "div"}

\* A quotient that was formed with a zero denominator.
RECURSIVE DividesByZero(_)
DividesByZero(x) ==
    CASE x.kind = "div" -> x.den = Zero \/ DividesByZero(x.num) \/ DividesByZero(x.den)
      [] x.kind = "sub" -> DividesByZero(x.a) \/ DividesByZero(x.b)
      [] OTHER -> FALSE

\* C9: calculate_sharpe_ratio returns 0 whenever the annual volatility is 0
\* (constant series and series with fewer than 2 returns included), and
\* calculate_calmar_ratio returns 0 whenever the max drawdown is 0; otherwise
\* they return (annual_return - risk_free_rate) / annual_volatility and
\* annual_return / |max_drawdown| of the same series and frequency.  No result
\* is a division by zero.
C9_Degeneracy ==
    LET nav == nav_series IN
    /\ call.op = "calculate_sharpe_ratio" =>
          LET vol == calculate_annual_volatility(nav, call.frequency)
              ar  == calculate_annual_return(nav, call.frequency)
          IN  /\ IsNumber(result) /\ ~DividesByZero(result)
              /\ (Len(nav) <= 2 \/ \A i \in 1..Len(nav) : nav[i].value = nav[1].value)
                    => vol = Zero
              /\ vol = Zero => result = Zero
              /\ vol # Zero =>
                    result = Div(Sub(ar, risk_free_rate), vol)
    /\ call.op = "calculate_calmar_ratio" =>
          LET md == calculate_max_drawdown(nav).max_drawdown
              ar == calculate_annual_return(nav, call.frequency)
          IN  /\ IsNumber(result) /\ ~DividesByZero(result)
              /\ md = Zero => result = Zero
              /\ md # Zero =>
                    result = Div(ar, Rat(-md.n, md.d))

\* Two points: a non-zero annual return and no volatility.
C9_Witness ==
    /\ call.op = "calculate_sharpe_ratio"
    /\ Len(nav_series) = 2
    /\ calculate_annual_return(nav_series, call.frequency) # Zero
    /\ calculate_annual_volatility(nav_series, call.frequency) = Zero
    /\ result = Zero

-----------------------------------------------------------------------------
(* Specification of the holding simulation: one call of the simulator on   *)
(* the series the caller holds.                                            *)

MaxSimLen == 15
MaxHold == 5
MaxPattern == 2

\* The values of a series of length n that repeats `pattern`.
Cycle(pattern, n) == [i \in 1..n |-> pattern[((i - 1) % Len(pattern)) + 1]]

Patterns == UNION {SeqsOf(NavValues, k) : k \in 1..MaxPattern}

\* Series long enough for the holding length RelaxedHoldingDays.
LongLengths ==
    {RelaxedHoldingDays + RelaxedBuffer - 1, RelaxedHoldingDays + RelaxedBuffer,
     RelaxedHoldingDays + DefaultMinDataPoints}

\* Scenario D: a series of length 20, to be held for 5 periods.
ScenarioD == MkSeries(Cycle(<<2, 3, 1>>, 20), 3)

SimSeries ==
    {MkSeries(Cycle(p, n), s) : p \in Patterns, n \in 0..MaxSimLen, s \in StartDays}
    \cup {MkSeries(Cycle(<<3, 1, 2>>, n), 0) : n \in LongLengths}
    \cup {ScenarioD}

HoldingDayArgs == (-2..MaxHold) \cup {RelaxedHoldingDays}

MinDataPointArgs == {0, DefaultMinDataPoints}

HoldingPeriodArgs ==
    {None, Some(<<>>), Some(<<1, 3>>), Some(<<2, 4, 3>>), Some(<<MaxHold>>),
     Some(<<0, 2>>), Some(<<-1, 2>>),
     Some(<<RelaxedHoldingDays, RelaxedHoldingDays + 1>>)}

InitSim ==
    /\ nav_series \in SimSeries
    /\ call = NoCall
    /\ result = None
    /\ fund_db = EmptyDatabase
    /\ analyzer = PerformanceAnalyzer(DEFAULT_RETURN_FREQUENCY,
                                      DEFAULT_RISK_FREQUENCY, None)
    /\ config = Config
    /\ index_dtype = DatetimeIndex

SimulateHoldingPeriod ==
    /\ call = NoCall
    /\ \E holding_days \in HoldingDayArgs, min_data_points \in MinDataPointArgs :
          /\ call' = [op |-> "simulate_holding_period",
                      holding_days |-> holding_days,
                      min_data_points |-> min_data_points]
          /\ result' = simulate_holding_period(nav_series, holding_days,
                                               min_data_points)
    /\ UNCHANGED <<nav_series, fund_db, analyzer, config, index_dtype>>

SimulateMultiplePeriods ==
    /\ call = NoCall
    /\ \E holding_periods \in HoldingPeriodArgs :
          /\ call' = [op |-> "simulate_multiple_periods",
                      holding_periods |-> holding_periods]
          /\ result' = simulate_multiple_periods(nav_series, holding_periods)
    /\ UNCHANGED <<nav_series, fund_db, analyzer, config, index_dtype>>

NextSim == SimulateHoldingPeriod \/ SimulateMultiplePeriods

SpecSim == InitSim /\ [][NextSim]_vars

-----------------------------------------------------------------------------
(* C1 *)

\* C1 as stated (for holding lengths >= 1 and the default minimum):
\* simulate_holding_period(S, L) returns exactly max(0, len(S) - L) rows and
\* never raises.
C1_AsStated ==
    (/\ call.op = "simulate_holding_period"
     /\ call.holding_days >= 1
     /\ call.min_data_points = DefaultMinDataPoints) =>
        /\ result.status = "ok"
        /\ Len(result.rows) = IF Len(nav_series) - call.holding_days > 0
                              THEN Len(nav_series) - call.holding_days ELSE 0

\* The number of extra points the simulation asks for.
Buffer(holding_days, min_data_points) ==
    IF holding_days = 360 THEN 5 ELSE min_data_points

\* C1 (amended): simulate_holding_period(S, L) returns len(S) - L rows, one
\* per start index 0..len(S)-L-1 in order, when L >= 0 and
\* len(S) >= L + buffer (buffer = min_data_points, 10 by default, and 5 when
\* L = 360); it returns an empty result without raising when
\* len(S) < L + buffer, hence whenever L >= len(S) under the default; for
\* L < 0 and len(S) >= L + buffer it raises IndexError.
C1_RowCount ==
    call.op = "simulate_holding_period" =>
        LET L == call.holding_days
            n == Len(nav_series)
        IN  IF n < L + Buffer(L, call.min_data_points)
            THEN result = EmptyDataFrame
            ELSE IF L < 0
            THEN result.status = "IndexError"
            ELSE /\ result.status = "ok"
                 /\ Len(result.rows) = (IF n - L > 0 THEN n - L ELSE 0)
                 /\ \A k \in 1..Len(result.rows) :
                       result.rows[k].buy_date = nav_series[k].date

\* A series that is exactly long enough: 10 points more than the holding length.
C1_Witness ==
    /\ call = [op |-> "simulate_holding_period", holding_days |-> 2,
               min_data_points |-> 10]
    /\ Len(nav_series) = 12
    /\ result.status = "ok"
    /\ Len(result.rows) = 10

-----------------------------------------------------------------------------
(* C2 *)

\* The holding lengths simulate_multiple_periods was asked for.
PeriodsAsked == IF call.holding_periods = None THEN DefaultHoldingPeriods
                ELSE call.holding_periods[1]

PeriodSet == {PeriodsAsked[k] : k \in 1..Len(PeriodsAsked)}

\* A holding length has a result exactly when the series has at least
\* L + buffer(L) points.
C2_Expected(buffer(_)) ==
    /\ result.status = "ok"
    /\ \A L \in PeriodSet :
          (L \in DOMAIN result.results) <=> (Len(nav_series) >= L + buffer(L))

\* C2 as stated (for lists of holding lengths >= 1): the relaxed buffer of 5
\* is applied exactly to the longest holding length of the configured list,
\* whatever that length is, and the default buffer of 10 to every other one.
C2_AsStated ==
    (/\ call.op = "simulate_multiple_periods"
     /\ PeriodSet # {}
     /\ \A L \in PeriodSet : L >= 1) =>
        LET LongestFirst(L) == IF L = SetMax(PeriodSet) THEN 5 ELSE 10
        IN  C2_Expected(LongestFirst)

\* C2 (amended): simulate_holding_period returns an empty result without
\* raising whenever len(series) < holding_length + buffer, where buffer is
\* min_data_points (default 10), and the relaxed buffer of 5 is applied
\* exactly to the holding length 360, whether or not it is the longest
\* configured length, and to no other length.
C2_BufferPolicy ==
    /\ call.op = "simulate_holding_period" =>
          (Len(nav_series)
              < call.holding_days + Buffer(call.holding_days, call.min_data_points)
           => result = EmptyDataFrame)
    /\ (/\ call.op = "simulate_multiple_periods"
        /\ \A L \in PeriodSet : L >= 1) =>
          LET Policy(L) == Buffer(L, 10) IN C2_Expected(Policy)

\* 365 points: 360 is simulated under the relaxed buffer although 361 is the
\* longest configured length, and 361 is not.
C2_Witness ==
    /\ call = [op |-> "simulate_multiple_periods",
               holding_periods |-> Some(<<360, 361>>)]
    /\ Len(nav_series) = 365
    /\ DOMAIN result.results = {360}
    /\ Len(result.results[360]) = 5

-----------------------------------------------------------------------------
(* C3 *)

\* C3: in a non-empty result of simulate_holding_period(S, L), row i
\* (i = 0..len(S)-L-1, in order) has entry date = date of S[i], exit date =
\* date of S[i+L], holding_return = S[i+L]/S[i] - 1 (stated as
\* (1 + r) * S[i] = S[i+L]) and days_held = the calendar days between the two
\* dates; no start index is skipped or duplicated.
C3_Rows ==
    (/\ call.op = "simulate_holding_period"
     /\ result.status = "ok"
     /\ result.rows # <<>>) =>
        LET L == call.holding_days
            rows == result.rows
        IN  /\ L >= 0
            /\ Len(rows) = Len(nav_series) - L
            /\ \A k \in 1..Len(rows) :
                  LET r == rows[k].holding_return IN
                  /\ rows[k].buy_date = nav_series[k].date
                  /\ rows[k].sell_date = nav_series[k + L].date
                  /\ r.kind = "rat"
                  /\ (r.n + r.d) * nav_series[k].value
                        = nav_series[k + L].value * r.d
                  /\ rows[k].days_held
                        = nav_series[k + L].date - nav_series[k].date

\* Scenario D: length 20, L = 5, 15 rows.
C3_Witness ==
    /\ call.op = "simulate_holding_period"
    /\ call.holding_days = 5
    /\ nav_series = ScenarioD
    /\ result.status = "ok"
    /\ Len(result.rows) = 15
    /\ result.rows[15].holding_return = Rat(2, 1)
    /\ result.rows[15].days_held = 7

-----------------------------------------------------------------------------
(* Specification of the analyses.  The database holds one fund and one     *)
(* index; the series run over a week end, a month end, a quarter end or a  *)
(* year end.  The rows of the database do not change during a run, and the *)
(* analyzer keeps the attributes it was built with.                        *)

MaxAnalyzeLen == 8

\* Short series, and series long enough to run over two week ends.
AnalyzeLengths == (0..2) \cup {MaxAnalyzeLen - 1, MaxAnalyzeLen}

\* Monday 2024-01-01, Thursday 2024-03-28 and Monday 2024-12-30.
AnalyzeStarts == {0, 87, 364}

AnalyzePatterns == {<<1>>, <<2, 1, 3>>, <<3, 1, 2, 2>>}

AnalyzeSeriesSet ==
    {MkSeries(Cycle(p, n), s) :
        p \in AnalyzePatterns, n \in AnalyzeLengths, s \in AnalyzeStarts}

\* The same dates with every value raised by one, and with the values in
\* reverse order.
Raised(nav) == [i \in 1..Len(nav) |-> [nav[i] EXCEPT !.value = @ + 1]]

Reversed(nav) ==
    [i \in 1..Len(nav) |-> [nav[i] EXCEPT !.value = nav[Len(nav) + 1 - i].value]]

FundIdArgs == {"F1"}
IndexIdArgs == {"INDEX_HS300"}

\* Fund F1 with or without accumulated values, index 000300.
Database(nav, accumulated) ==
    [funds |-> <<"F1">>,
     fund_daily_data  |->
        ("F1" :> [nav |-> Raised(nav),
                  cumulative_nav |-> IF accumulated THEN nav ELSE <<>>]),
     index_daily_data |-> ("000300" :> Reversed(nav))]

Databases ==
    {Database(nav, accumulated) : nav \in AnalyzeSeriesSet, accumulated \in BOOLEAN}
    \cup {EmptyDatabase}

Analyzers ==
    {PerformanceAnalyzer(DEFAULT_RETURN_FREQUENCY, DEFAULT_RISK_FREQUENCY, None),
     PerformanceAnalyzer("monthly", "daily", Some([method |-> "cum_return"]))}

ReturnFrequencyOptions ==
    {None, Some("daily"), Some("weekly"), Some("monthly"), Some("hourly")}

RiskFrequencyOptions ==
    {None, Some("daily"), Some("weekly"), Some("monthly"), Some("quarterly"),
     Some("yearly")}

ParamOptions ==
    {None, Some([method |-> "cum_return"]), Some([week_end_day |-> "WED"])}

\* The arguments of a call: mixed-frequency calls, calls with blank
\* arguments, and single-frequency calls.
AnalyzeArgs ==
    [frequency : {None}, return_frequency : ReturnFrequencyOptions,
     risk_frequency : RiskFrequencyOptions, resample_params : ParamOptions]
    \cup
    [frequency : {Some("")}, return_frequency : {None, Some(""), Some("monthly")},
     risk_frequency : {None, Some("")}, resample_params : {Some(EmptyDict)}]
    \cup
    [frequency : {Some(f) : f \in FrequencyArgs}, return_frequency : {None},
     risk_frequency : {None}, resample_params : ParamOptions]

InitAnalyze ==
    /\ nav_series = <<>>
    /\ call = NoCall
    /\ result = None
    /\ fund_db \in Databases
    /\ analyzer \in Analyzers
    /\ config = Config
    /\ index_dtype = DatetimeIndex

\* A run follows one call on a new analyzer and its repetitions: the calls a
\* caller may issue next, as records of the operation, the subject and the
\* arguments.
Calls(op, ids) ==
    IF call = NoCall
    THEN {[op |-> op, id |-> id] @@ args : id \in ids, args \in AnalyzeArgs}
    ELSE IF call.op = op THEN {call} ELSE {}

\* The state after a call that returned `out`.
Returned(c, out) ==
    /\ call' = c
    /\ result' = out.result
    /\ analyzer' = [analyzer EXCEPT !.results_cache = out.results_cache]
    /\ UNCHANGED <<nav_series, fund_db, config, index_dtype>>

AnalyzeFundPerformance ==
    \E c \in Calls("analyze_fund_performance", FundIdArgs) :
        Returned(c, analyze_fund_performance(analyzer, fund_db, c.id,
                        c.frequency, c.return_frequency, c.risk_frequency,
                        c.resample_params))

AnalyzeIndexPerformance ==
    \E c \in Calls("analyze_index_performance", IndexIdArgs) :
        Returned(c, analyze_index_performance(analyzer, fund_db, c.id,
                        c.frequency, c.return_frequency, c.risk_frequency,
                        c.resample_params))

NextAnalyze == AnalyzeFundPerformance \/ AnalyzeIndexPerformance

SpecAnalyze == InitAnalyze /\ [][NextAnalyze]_vars

-----------------------------------------------------------------------------
(* Mixed-frequency analysis *)

IsAnalysis == call.op \in {"analyze_fund_performance", "analyze_index_performance"}

\* A call without an explicit single frequency.
IsMixedCall == IsAnalysis /\ call.frequency \in {None, Some("")}

\* The value series the database holds for the subject of the call: a fund's
\* accumulated values (its unit values when it has none), an index's closes.
StoredSeries ==
    IF call.op = "analyze_fund_performance"
    THEN IF call.id \in DOMAIN fund_db.fund_daily_data
         THEN LET rows == fund_db.fund_daily_data[call.id]
              IN  IF rows.cumulative_nav # <<>> THEN rows.cumulative_nav ELSE rows.nav
         ELSE <<>>
    ELSE LET code == IF call.id = "INDEX_HS300" THEN "000300" ELSE call.id
         IN  IF code \in DOMAIN fund_db.index_daily_data
             THEN fund_db.index_daily_data[code] ELSE <<>>

\* The frequency in force: the caller's, or else the analyzer's default.
InForce(given, default) == IF given \in {None, Some("")} THEN default ELSE given[1]

ReturnFrequency == InForce(call.return_frequency, analyzer.default_return_frequency)
RiskFrequency   == InForce(call.risk_frequency, analyzer.default_risk_frequency)

ParamsInForce ==
    IF call.resample_params \in {None, Some(EmptyDict)}
    THEN analyzer.resample_params ELSE call.resample_params[1]

\* The record of the same call with other frequencies, on an analyzer built
\* alike.
RecordWith(return_frequency, risk_frequency) ==
    LET new == [analyzer EXCEPT !.results_cache = EmptyDict]
    IN  IF call.op = "analyze_fund_performance"
        THEN analyze_fund_performance(new, fund_db, call.id, None,
                 return_frequency, risk_frequency, call.resample_params).result
        ELSE analyze_index_performance(new, fund_db, call.id, None,
                 return_frequency, risk_frequency, call.resample_params).result

OtherFrequencies == {Some("daily"), Some("monthly")}

\* C10: a call of analyze_fund_performance / analyze_index_performance without
\* an explicit single frequency returns a record whose total_return and
\* annual_return are those of the series resampled at the return frequency (the
\* caller's, else the analyzer's default, daily unless built otherwise) and
\* whose annual_volatility, max_drawdown with its start and end, sharpe_ratio
\* and calmar_ratio are those of the series resampled at the risk frequency
\* (the caller's, else the default, weekly unless built otherwise); the record
\* is empty exactly when one of the two resampled series has fewer than 2
\* points; and the same call with another risk frequency returns the same
\* return metrics, with another return frequency the same risk metrics.
C10_MixedRecord ==
    IsMixedCall =>
        LET return_nav == resample_data(StoredSeries, ReturnFrequency, ParamsInForce)
            risk_nav   == resample_data(StoredSeries, RiskFrequency, ParamsInForce)
            drawdown   == calculate_max_drawdown(risk_nav)
        IN  IF Len(return_nav) < 2 \/ Len(risk_nav) < 2
            THEN DOMAIN result = {}
            ELSE /\ DOMAIN result # {}
                 /\ result.return_frequency = ReturnFrequency
                 /\ result.risk_frequency = RiskFrequency
                 /\ result.total_return = calculate_total_return(return_nav)
                 /\ result.annual_return =
                        calculate_annual_return(return_nav, ReturnFrequency)
                 /\ result.annual_volatility =
                        calculate_annual_volatility(risk_nav, RiskFrequency)
                 /\ result.max_drawdown = drawdown.max_drawdown
                 /\ result.max_drawdown_start = drawdown.start_date
                 /\ result.max_drawdown_end = drawdown.end_date
                 /\ result.sharpe_ratio = calculate_sharpe_ratio(risk_nav, RiskFrequency)
                 /\ result.calmar_ratio = calculate_calmar_ratio(risk_nav, RiskFrequency)
                 /\ \A other \in OtherFrequencies :
                        LET record == RecordWith(call.return_frequency, other)
                        IN  DOMAIN record # {} =>
                                /\ record.total_return = result.total_return
                                /\ record.annual_return = result.annual_return
                 /\ \A other \in OtherFrequencies :
                        LET record == RecordWith(other, call.risk_frequency)
                        IN  DOMAIN record # {} =>
                                /\ record.annual_volatility = result.annual_volatility
                                /\ record.max_drawdown = result.max_drawdown
                                /\ record.max_drawdown_start = result.max_drawdown_start
                                /\ record.max_drawdown_end = result.max_drawdown_end
                                /\ record.sharpe_ratio = result.sharpe_ratio
                                /\ record.calmar_ratio = result.calmar_ratio

\* Reached: an analyzer built with the defaults answers a call without
\* frequencies with a record whose return is that of the daily series and
\* whose drawdown is that of the weekly series, the two differing from the
\* weekly return and the daily drawdown.
C10_Witness ==
    /\ call.op = "analyze_fund_performance"
    /\ call.frequency = None
    /\ call.return_frequency = None
    /\ call.risk_frequency = None
    /\ analyzer.default_return_frequency = "daily"
    /\ analyzer.default_risk_frequency = "weekly"
    /\ DOMAIN result # {}
    /\ result.total_return = calculate_total_return(StoredSeries)
    /\ result.total_return #
           calculate_total_return(resample_data(StoredSeries, "weekly", ParamsInForce))
    /\ result.max_drawdown # calculate_max_drawdown(StoredSeries).max_drawdown
    /\ result.annual_volatility # Zero
    /\ result.annual_volatility # calculate_annual_volatility(StoredSeries, "daily")

\* The two ratios of a record are those of its volatility and drawdown and
\* of the annual return given.
RatiosOf(record, annual_return) ==
    /\ record.sharpe_ratio =
           IF record.annual_volatility = Zero THEN Zero
           ELSE Div(Sub(annual_return, risk_free_rate), record.annual_volatility)
    /\ record.calmar_ratio =
           IF record.max_drawdown = Zero THEN Zero
           ELSE Div(annual_return, RatAbs(record.max_drawdown))

\* The annual return of the stored series at the risk frequency.
RiskAnnualReturn ==
    calculate_annual_return(resample_data(StoredSeries, RiskFrequency, ParamsInForce),
                            RiskFrequency)

\* C26 as stated: in a non-empty record of either mode, sharpe_ratio is
\* (its annual_return - risk_free_rate) / its annual_volatility, 0 when the
\* volatility is 0, and calmar_ratio is its annual_return / |its
\* max_drawdown|, 0 when the drawdown is 0.
C26_AsStated ==
    (IsAnalysis /\ DOMAIN result # {}) => RatiosOf(result, result.annual_return)

\* C26, amended: a non-empty record of single-frequency mode has the two
\* ratios of its own annual_return; a non-empty record of mixed-frequency
\* mode has the two ratios of the annual return at the risk frequency, with
\* its own annual_volatility and max_drawdown.
C26_Ratios ==
    (IsAnalysis /\ DOMAIN result # {}) =>
        IF IsMixedCall THEN RatiosOf(result, RiskAnnualReturn)
        ELSE RatiosOf(result, result.annual_return)

\* A record of mixed-frequency mode whose annual return is not the one at
\* the risk frequency, with a volatility and a drawdown that are not 0.
C26_Witness ==
    /\ IsMixedCall
    /\ DOMAIN result # {}
    /\ result.annual_return # RiskAnnualReturn
    /\ result.annual_volatility # Zero
    /\ result.max_drawdown # Zero
    /\ result.sharpe_ratio # Zero

-----------------------------------------------------------------------------
(* Composite synthesis: PerformanceAnalyzer._build_composite_nav_from_db.   *)
(* A value of a composite is a fraction; a weight is a fraction.           *)

\* What a synthesizer returns: a series, or the exception it raises.
Series(rows) == [status |-> "ok", series |-> rows]

ValueError == [status |-> "ValueError", series |-> <<>>]

\* df['close'].pct_change().dropna(): the simple returns of a component, dated
\* from its second row on.
ReturnSeries(rows) ==
    [i \in 1..(Len(rows) - 1) |->
        [date  |-> rows[i + 1].date,
         value |-> Rat(rows[i + 1].value - rows[i].value, rows[i].value)]]

\* The value a series has on a date it holds.
ValueOn(series, date) ==
    series[CHOOSE j \in 1..Len(series) : series[j].date = date].value

HasDate(series, date) == \E j \in 1..Len(series) : series[j].date = date

\* series.to_frame(): the frame of returns with one column.
ToFrame(code, series) ==
    [columns |-> <<code>>,
     rows    |-> [i \in 1..Len(series) |->
                     [date |-> series[i].date, values |-> <<series[i].value>>]]]

\* The rows of a frame with one more value each.
WithColumn(rows, series) ==
    [i \in 1..Len(rows) |->
        [rows[i] EXCEPT !.values = Append(@, ValueOn(series, rows[i].date))]]

\* returns_df.join(series, how='inner'): the rows dated as a row of the series.
JoinInner(frame, code, series) ==
    LET Shared(row) == HasDate(series, row.date)
    IN  [columns |-> Append(frame.columns, code),
         rows    |-> WithColumn(SelectSeq(frame.rows, Shared), series)]

\* The state of the loop over the components: the weights kept, the frame of
\* returns joined so far (None before the first), and whether join raised.
NoComponents == [weights |-> EmptyDict, returns_df |-> None, raised |-> FALSE]

\* One component with a non-zero weight and returns: joining a column the
\* frame already has raises ValueError.
AddReturns(acc, base_code, weight, series) ==
    IF acc.returns_df = None
    THEN [weights    |-> (base_code :> weight) @@ acc.weights,
          returns_df |-> Some(ToFrame(base_code, series)),
          raised     |-> FALSE]
    ELSE IF \E k \in 1..Len(acc.returns_df[1].columns) :
                acc.returns_df[1].columns[k] = base_code
    THEN [acc EXCEPT !.raised = TRUE]
    ELSE [weights    |-> (base_code :> weight) @@ acc.weights,
          returns_df |-> Some(JoinInner(acc.returns_df[1], base_code, series)),
          raised     |-> FALSE]

\* One pass of the loop: a component without base_code, with weight 0,
\* without rows or without returns is skipped.
AddComponent(acc, comp, db) ==
    IF Get(comp, "base_code", "") = "" THEN acc
    ELSE IF Get(comp, "weight", Zero) = Zero THEN acc
    ELSE IF Len(get_index_daily_data(db, resolve_index_id(comp.base_code))) < 2 THEN acc
    ELSE AddReturns(acc, resolve_index_id(comp.base_code), comp.weight,
             ReturnSeries(get_index_daily_data(db, resolve_index_id(comp.base_code))))

RECURSIVE JoinComponents(_, _, _, _)
JoinComponents(components, k, db, acc) ==
    IF k > Len(components) \/ acc.raised THEN acc
    ELSE JoinComponents(components, k + 1, db, AddComponent(acc, components[k], db))

\* The sum over the first k columns of value * weight.
RECURSIVE WeightedSum(_, _, _, _)
WeightedSum(columns, values, weights, k) ==
    IF k = 0 THEN Zero
    ELSE RatAdd(WeightedSum(columns, values, weights, k - 1),
                IF columns[k] \in DOMAIN weights
                THEN RatMul(values[k], weights[columns[k]]) ELSE Zero)

\* weighted_returns: per row the sum of returns_df[code] * weight.
WeightedReturns(frame, weights) ==
    [i \in 1..Len(frame.rows) |->
        [date  |-> frame.rows[i].date,
         value |-> WeightedSum(frame.columns, frame.rows[i].values, weights,
                               Len(frame.columns))]]

\* (1 + returns).cumprod()
RECURSIVE CumProdAt(_, _)
CumProdAt(returns, i) ==
    IF i = 0 THEN One
    ELSE RatMul(CumProdAt(returns, i - 1), RatAdd(One, returns[i].value))

CumProd(returns) ==
    [i \in 1..Len(returns) |-> [date |-> returns[i].date, value |-> CumProdAt(returns, i)]]

\* The part after the loop: an empty series when nothing was joined or no row
\* survived.
CompositeOf(acc) ==
    IF acc.raised THEN ValueError
    ELSE IF acc.returns_df = None THEN Series(<<>>)
    ELSE IF Len(acc.returns_df[1].rows) = 0 \/ DOMAIN acc.weights = {} THEN Series(<<>>)
    ELSE Series(CumProd(WeightedReturns(acc.returns_df[1], acc.weights)))

build_composite_nav_from_db(cfg, db, composite_id) ==
    IF Len(get_composite_components(cfg, composite_id)) = 0 THEN Series(<<>>)
    ELSE CompositeOf(JoinComponents(get_composite_components(cfg, composite_id),
                                    1, db, NoComponents))

-----------------------------------------------------------------------------
(* Composite synthesis: FundAnalysisPipeline._build_composite_nav_from_db. *)
(* It is the loop of the analyzer, with the base code of a component       *)
(* normalized by config.normalize_index_code.                              *)

PipelineAddComponent(acc, comp, db) ==
    IF Get(comp, "base_code", "") = "" THEN acc
    ELSE IF Get(comp, "weight", Zero) = Zero THEN acc
    ELSE IF Len(get_index_daily_data(db, normalize_index_code(comp.base_code))) < 2 THEN acc
    ELSE AddReturns(acc, normalize_index_code(comp.base_code), comp.weight,
             ReturnSeries(get_index_daily_data(db, normalize_index_code(comp.base_code))))

RECURSIVE PipelineJoinComponents(_, _, _, _)
PipelineJoinComponents(components, k, db, acc) ==
    IF k > Len(components) \/ acc.raised THEN acc
    ELSE PipelineJoinComponents(components, k + 1, db,
                                PipelineAddComponent(acc, components[k], db))

pipeline_build_composite_nav_from_db(cfg, db, composite_id) ==
    IF Len(get_composite_components(cfg, composite_id)) = 0 THEN Series(<<>>)
    ELSE CompositeOf(PipelineJoinComponents(get_composite_components(cfg, composite_id),
                                            1, db, NoComponents))

-----------------------------------------------------------------------------
(* Composite synthesis: IndexFetcher.calculate_composite_index.  `market`  *)
(* holds, per base index, the rows the data source answers with.           *)

\* The value of a return that does not exist.
NaN == [kind |-> "nan"]

\* The fetcher returns None where it has nothing to return.
NoneResult == [status |-> "None", series |-> <<>>]

\* fetch_index_data for a base index: its rows in date order, none when the
\* source has no data.
fetch_index_data(market, index_code) == Get(market, index_code, <<>>)

\* component_data[base_code] = {...}: a code seen before keeps its place and
\* takes the later weight.
PutComponent(component_data, base_code, data, weight) ==
    IF \E k \in 1..Len(component_data) : component_data[k].base_code = base_code
    THEN [k \in 1..Len(component_data) |->
             IF component_data[k].base_code = base_code
             THEN [component_data[k] EXCEPT !.weight = weight]
             ELSE component_data[k]]
    ELSE Append(component_data,
                [base_code |-> base_code, data |-> data, weight |-> weight])

\* The first loop over the first k components: those without data are left out.
RECURSIVE ComponentData(_, _, _)
ComponentData(components, k, market) ==
    IF k = 0 THEN <<>>
    ELSE IF Len(fetch_index_data(market, components[k].base_code)) = 0
    THEN ComponentData(components, k - 1, market)
    ELSE PutComponent(ComponentData(components, k - 1, market),
                      components[k].base_code,
                      fetch_index_data(market, components[k].base_code),
                      Get(components[k], "weight", One))

\* comp_df[comp_df['date'].isin(all_dates)]: the rows of a component on the
\* dates every component has.
OnCommonDates(data, component_data) ==
    LET Common(row) ==
            \A k \in 1..Len(component_data) : HasDate(component_data[k].data, row.date)
    IN  SelectSeq(data, Common)

\* comp_df['close'].pct_change(): NaN on the first row.
PctChange(rows) ==
    [i \in 1..Len(rows) |->
        IF i = 1 THEN NaN
        ELSE Rat(rows[i].value - rows[i - 1].value, rows[i - 1].value)]

\* The frame after the merges: per component the returns over the common
\* dates, and the name pd.merge gives its column: the first column merged
\* meets no other and stays 'return', a later one overlaps and is suffixed.
ReturnColumns(component_data) ==
    [k \in 1..Len(component_data) |->
        [name    |-> IF k = 1 THEN "return"
                     ELSE "return_" \o component_data[k].base_code,
         code    |-> component_data[k].base_code,
         weight  |-> component_data[k].weight,
         returns |-> PctChange(OnCommonDates(component_data[k].data, component_data))]]

\* col.startswith('return_')
StartsWithReturn_(name) == name # "return"

\* return_columns: the columns whose name starts with 'return_'.
BlendedColumns(columns) ==
    LET Blended(column) == StartsWithReturn_(column.name)
    IN  SelectSeq(columns, Blended)

\* sum(weights) over the first k blended columns.
RECURSIVE TotalWeight(_, _)
TotalWeight(columns, k) ==
    IF k = 0 THEN Zero ELSE RatAdd(TotalWeight(columns, k - 1), columns[k].weight)

\* weights = [w / total_weight for w in weights] when total_weight > 0.
NormalizedWeight(columns, k) ==
    IF RatLess(Zero, TotalWeight(columns, Len(columns)))
    THEN Div(columns[k].weight, TotalWeight(columns, Len(columns)))
    ELSE columns[k].weight

\* portfolio_return on row i: 0 plus return * weight of the first k blended
\* columns; NaN as soon as one return is NaN.
RECURSIVE PortfolioReturn(_, _, _)
PortfolioReturn(columns, i, k) ==
    IF k = 0 THEN Zero
    ELSE IF columns[k].returns[i] = NaN THEN NaN
    ELSE IF PortfolioReturn(columns, i, k - 1) = NaN THEN NaN
    ELSE RatAdd(PortfolioReturn(columns, i, k - 1),
                RatMul(columns[k].returns[i], NormalizedWeight(columns, k)))

\* (1 + portfolio_return).cumprod(): a NaN row stays NaN and is skipped by
\* the product.
RECURSIVE CumProdSkipNaN(_, _, _)
CumProdSkipNaN(columns, i, n) ==
    IF i = 0 THEN One
    ELSE IF PortfolioReturn(columns, i, n) = NaN THEN CumProdSkipNaN(columns, i - 1, n)
    ELSE RatMul(CumProdSkipNaN(columns, i - 1, n),
                RatAdd(One, PortfolioReturn(columns, i, n)))

\* The frame returned: date and close per common date.
CompositeFrame(dates, columns) ==
    [i \in 1..Len(dates) |->
        [date  |-> dates[i].date,
         value |-> IF PortfolioReturn(columns, i, Len(columns)) = NaN THEN NaN
                   ELSE CumProdSkipNaN(columns, i, Len(columns))]]

\* The part after the first loop.
CompositeOfData(component_data) ==
    IF Len(component_data) = 0 THEN NoneResult
    ELSE IF Len(OnCommonDates(component_data[1].data, component_data)) = 0 THEN NoneResult
    ELSE Series(CompositeFrame(OnCommonDates(component_data[1].data, component_data),
                               BlendedColumns(ReturnColumns(component_data))))

calculate_composite_index(cfg, market, composite_code) ==
    IF Len(get_composite_components(cfg, composite_code)) = 0 THEN NoneResult
    ELSE CompositeOfData(ComponentData(get_composite_components(cfg, composite_code),
                             Len(get_composite_components(cfg, composite_code)), market))

-----------------------------------------------------------------------------
(* Specification of composite synthesis: a configuration of one composite, *)
(* a database of the rows of its base indices, and one action per          *)
(* synthesizer.                                                             *)

MaxComponents == 2
MaxDay == 3

ComponentCodes == {"000933", "000012"}

ComponentWeights == {Zero, Rat(1, 2), One}

CompositeIdArgs == {"MED_INNOV"}

\* The closing values of a base index on the first MaxDay trading days.
ClosingValues(code) ==
    IF code = "000933" THEN MkSeries(Cycle(<<1, 2, 1, 3>>, MaxDay), 0)
    ELSE MkSeries(Cycle(<<2, 2, 4, 1>>, MaxDay), 0)

\* The rows the database holds of a base index that was traded on `days`.
RowsOn(code, days) ==
    LET Traded(row) == \E i \in days : row.date = TradingDay(0, i)
    IN  SelectSeq(ClosingValues(code), Traded)

Markets ==
    {("000933" :> RowsOn("000933", a)) @@ ("000012" :> RowsOn("000012", b)) :
        a \in SUBSET (1..MaxDay), b \in SUBSET (1..MaxDay)}

CompositeDatabase(market) ==
    [funds |-> <<>>, fund_daily_data |-> EmptyDict, index_daily_data |-> market]

Components == [base_code : ComponentCodes, weight : ComponentWeights]

ComponentLists ==
    UNION {SeqsOf(Components, n) : n \in 0..MaxComponents}

Configs ==
    {[COMPOSITE_INDICES |-> ("MED_INNOV" :> components),
      BENCHMARK_IDS |-> BENCHMARK_IDS] : components \in ComponentLists}
    \cup {Config}

InitComposite ==
    /\ nav_series = <<>>
    /\ call = NoCall
    /\ result = None
    /\ fund_db \in {CompositeDatabase(market) : market \in Markets}
    /\ analyzer = PerformanceAnalyzer(DEFAULT_RETURN_FREQUENCY,
                                      DEFAULT_RISK_FREQUENCY, None)
    /\ config \in Configs
    /\ index_dtype = DatetimeIndex

BuildCompositeNavFromDb ==
    /\ \E composite_id \in CompositeIdArgs :
          /\ call' = [op |-> "_build_composite_nav_from_db",
                      composite_id |-> composite_id]
          /\ result' = build_composite_nav_from_db(config, fund_db, composite_id)
    /\ UNCHANGED <<nav_series, fund_db, analyzer, config, index_dtype>>

CalculateCompositeIndex ==
    /\ \E composite_code \in CompositeIdArgs :
          /\ call' = [op |-> "calculate_composite_index",
                      composite_id |-> composite_code]
          /\ result' = calculate_composite_index(config, fund_db.index_daily_data,
                                                 composite_code)
    /\ UNCHANGED <<nav_series, fund_db, analyzer, config, index_dtype>>

PipelineBuildCompositeNavFromDb ==
    /\ \E composite_id \in CompositeIdArgs :
          /\ call' = [op |-> "FundAnalysisPipeline._build_composite_nav_from_db",
                      composite_id |-> composite_id]
          /\ result' = pipeline_build_composite_nav_from_db(config, fund_db, composite_id)
    /\ UNCHANGED <<nav_series, fund_db, analyzer, config, index_dtype>>

NextComposite ==
    \/ BuildCompositeNavFromDb
    \/ CalculateCompositeIndex
    \/ PipelineBuildCompositeNavFromDb

SpecComposite == InitComposite /\ [][NextComposite]_vars

-----------------------------------------------------------------------------
(* Composite synthesis: the vocabulary of the properties.                   *)

IsSynthesis == call.op \in {"_build_composite_nav_from_db", "calculate_composite_index"}

ByAnalyzer == call.op = "_build_composite_nav_from_db"

ByFetcher == call.op = "calculate_composite_index"

\* The components configured for the composite of the call, and the rows the
\* database holds of a base index.
ConfiguredComponents == get_composite_components(config, call.composite_id)

StoredRows(code) == get_index_daily_data(fund_db, code)

\* A component contributes when its weight is not zero and it has data.
Contributes(comp) == comp.weight # Zero /\ Len(StoredRows(comp.base_code)) > 0

\* A component has a period return on a date.
HasReturnOn(comp, date) == HasDate(ReturnSeries(StoredRows(comp.base_code)), date)

\* The sum of the weights of the contributing components among the first k.
RECURSIVE ContributingWeight(_, _)
ContributingWeight(components, k) ==
    IF k = 0 THEN Zero
    ELSE RatAdd(ContributingWeight(components, k - 1),
                IF Contributes(components[k]) THEN components[k].weight ELSE Zero)

\* The sum of w_i * r_i on a date over the contributing components among the
\* first k.
RECURSIVE BlendedReturn(_, _, _)
BlendedReturn(components, date, k) ==
    IF k = 0 THEN Zero
    ELSE RatAdd(BlendedReturn(components, date, k - 1),
                IF Contributes(components[k])
                THEN RatMul(components[k].weight,
                            ValueOn(ReturnSeries(StoredRows(components[k].base_code)), date))
                ELSE Zero)

\* The return of a composite series on its row i: the growth from the row
\* before, the series being anchored at 1.0.
CompositeReturn(series, i) ==
    IF i = 1 \/ series[IF i = 1 THEN 1 ELSE i - 1].value = NaN
    THEN RatSub(series[i].value, One)
    ELSE RatSub(Div(series[i].value, series[i - 1].value), One)

\* C11 as stated: on each date of the composite on which every contributing
\* component has a return, the return of the composite is the sum of
\* (w_i / sum of the contributing w) * r_i over the contributing components.
C11_AsStated ==
    (IsSynthesis /\ result.status = "ok") =>
        \A i \in 1..Len(result.series) :
            (/\ result.series[i].value # NaN
             /\ \E k \in 1..Len(ConfiguredComponents) :
                    Contributes(ConfiguredComponents[k])
             /\ \A k \in 1..Len(ConfiguredComponents) :
                    Contributes(ConfiguredComponents[k]) =>
                        HasReturnOn(ConfiguredComponents[k], result.series[i].date))
            => CompositeReturn(result.series, i) =
                   Div(BlendedReturn(ConfiguredComponents, result.series[i].date,
                                     Len(ConfiguredComponents)),
                       ContributingWeight(ConfiguredComponents,
                                          Len(ConfiguredComponents)))

\* The composite of the call has a single component, at weight 1.0.
SingleComponent ==
    Len(ConfiguredComponents) = 1 /\ ConfiguredComponents[1].weight = One

\* C12 as stated: a composite of a single component at weight 1.0 has, on
\* every date t of the component after its first, the value
\* component[t] / component[first].
C12_AsStated ==
    (IsSynthesis /\ SingleComponent) =>
        \A i \in 2..Len(StoredRows(ConfiguredComponents[1].base_code)) :
            /\ HasDate(result.series,
                       StoredRows(ConfiguredComponents[1].base_code)[i].date)
            /\ ValueOn(result.series,
                       StoredRows(ConfiguredComponents[1].base_code)[i].date)
                   = Rat(StoredRows(ConfiguredComponents[1].base_code)[i].value,
                         StoredRows(ConfiguredComponents[1].base_code)[1].value)

\* The dates a composite series holds, and the dates of the database.
DatesOf(series) == {series[i].date : i \in 1..Len(series)}

StoredDates == {TradingDay(0, i) : i \in 1..MaxDay}

\* A component with a non-zero weight is configured.
SomeWeight ==
    \E k \in 1..Len(ConfiguredComponents) : ConfiguredComponents[k].weight # Zero

\* C13 as stated: the dates of the composite are the dates on which every
\* component with a non-zero weight has a period return, whatever the
\* components of weight zero hold.
C13_AsStated ==
    (IsSynthesis /\ SomeWeight) =>
        DatesOf(result.series) =
            {date \in StoredDates :
                \A k \in 1..Len(ConfiguredComponents) :
                    ConfiguredComponents[k].weight # Zero =>
                        HasReturnOn(ConfiguredComponents[k], date)}

\* No date on which every component with a non-zero weight has a return.
NoCommonDate ==
    /\ SomeWeight
    /\ \A date \in StoredDates :
          \E k \in 1..Len(ConfiguredComponents) :
              /\ ConfiguredComponents[k].weight # Zero
              /\ ~HasReturnOn(ConfiguredComponents[k], date)

\* The database holds no row of any component.
AllDataEmpty ==
    \A k \in 1..Len(ConfiguredComponents) :
        Len(StoredRows(ConfiguredComponents[k].base_code)) = 0

\* C14 as stated: the synthesizer returns an empty series, and raises
\* nothing, when no component has a non-zero weight, when the return series
\* share no date, and when the data of every component is empty.
C14_AsStated ==
    (IsSynthesis /\ (~SomeWeight \/ NoCommonDate \/ AllDataEmpty)) =>
        result = Series(<<>>)

-----------------------------------------------------------------------------
(* Specification of the resampler: a caller resamples the series it holds, *)
(* and may resample what it got once more, by the same frequency and        *)
(* parameters.                                                              *)

\* The points of a series in reverse order: a series whose dates descend.
Backwards(nav) == [i \in 1..Len(nav) |-> nav[Len(nav) + 1 - i]]

\* Daily series around a week in which the market is closed: no value from
\* Monday 2024-01-08 to Sunday 2024-01-14, and one with no value in February.
HolidaySeries ==
    {<<[date |-> 2, value |-> 2], [date |-> 4, value |-> 1],
       [date |-> 14, value |-> 3], [date |-> 15, value |-> 2]>>,
     <<[date |-> 29, value |-> 1], [date |-> 30, value |-> 3],
       [date |-> 60, value |-> 2]>>}

ResampleSeries ==
    AnalyzeSeriesSet \cup {Backwards(nav) : nav \in AnalyzeSeriesSet} \cup HolidaySeries

ResampleParamArgs ==
    {EmptyDict, [method |-> "cum_return"], [week_end_day |-> "WED"],
     [method |-> "cum_return", week_end_day |-> "WED"]}

InitResample ==
    /\ nav_series \in ResampleSeries
    /\ call = NoCall
    /\ result = None
    /\ fund_db = EmptyDatabase
    /\ analyzer = PerformanceAnalyzer(DEFAULT_RETURN_FREQUENCY,
                                      DEFAULT_RISK_FREQUENCY, None)
    /\ config = Config
    /\ index_dtype \in IndexDtypes

\* _resample_data on the series the caller holds.  The call assigns the
\* converted index to the caller's object before it works on a sorted copy.
ResampleData ==
    /\ call = NoCall
    /\ \E frequency \in FrequencyArgs, resample_params \in ResampleParamArgs :
          /\ call' = [op |-> "_resample_data", frequency |-> frequency,
                      resample_params |-> resample_params, input |-> "series"]
          /\ result' = resample_data(nav_series, frequency, resample_params)
    /\ index_dtype' = resample_data_index(nav_series, index_dtype)
    /\ UNCHANGED <<nav_series, fund_db, analyzer, config>>

\* _resample_data on the series the call before returned: the caller now
\* holds that object.  A non-empty result carries the converted index; an
\* empty input came back as the same object; an empty result of a non-empty
\* input is a fresh empty Series, whose index dtype is the library's choice.
ResampleResult ==
    /\ call # NoCall
    /\ call' = [call EXCEPT !.input = "result"]
    /\ nav_series' = result
    /\ result' = resample_data(result, call.frequency, call.resample_params)
    /\ index_dtype' \in
          IF Len(result) > 0 THEN {DatetimeIndex}
          ELSE IF Len(nav_series) = 0 THEN {index_dtype}
          ELSE EmptyIndexDtypes
    /\ UNCHANGED <<fund_db, analyzer, config>>

NextResample == ResampleData \/ ResampleResult

SpecResample == InitResample /\ [][NextResample]_vars

-----------------------------------------------------------------------------
(* The resampler: the vocabulary of the properties.                         *)

IsResample == call.op = "_resample_data"

\* The dates of a series are unique and ascend.
Ascending(nav) == \A i \in 1..(Len(nav) - 1) : nav[i].date < nav[i + 1].date

MethodOfCall == Get(call.resample_params, "method", "last")

\* C15: resampling at daily frequency returns the series it was given, date
\* by date and value by value, for every series of unique ascending dates,
\* every method and every week-end day, also when the series given is itself
\* the result of a daily resampling.
C15_DailyIdentity ==
    (IsResample /\ call.frequency = "daily" /\ Ascending(nav_series)) =>
        result = nav_series

\* A daily resampling by cum_return of the result of a daily resampling of a
\* series of several points.
C15_Witness ==
    /\ IsResample
    /\ call.frequency = "daily"
    /\ call.input = "result"
    /\ MethodOfCall = "cum_return"
    /\ Ascending(nav_series)
    /\ Len(nav_series) > 2

\* The period rule of the call, and the series the resampler works on.
RuleOfCall ==
    get_resample_rule(call.frequency, Get(call.resample_params, "week_end_day", "FRI"))

\* prod(1 + r) over the returns of nav, among its first k points, that fall in
\* the period ending on `label`; the return of point i is dated as point i.
RECURSIVE GrowthInPeriod(_, _, _, _)
GrowthInPeriod(nav, rule, label, k) ==
    IF k < 2 THEN One
    ELSE RatMul(GrowthInPeriod(nav, rule, label, k - 1),
                IF PeriodEnd(rule, nav[k].date) = label
                THEN Rat(nav[k].value, nav[k - 1].value) ELSE One)

\* R_q: the compounded return prod(1 + r) - 1 of the period ending on `label`.
PeriodReturn(nav, rule, label) ==
    RatSub(GrowthInPeriod(nav, rule, label, Len(nav)), One)

\* The product of (1 + R_q) over the periods of the first j rows of `rows`.
RECURSIVE CompoundedUpTo(_, _, _, _)
CompoundedUpTo(nav, rule, rows, j) ==
    IF j = 0 THEN One
    ELSE RatMul(CompoundedUpTo(nav, rule, rows, j - 1),
                RatAdd(One, PeriodReturn(nav, rule, rows[j].date)))

\* C16: with method cum_return and a weekly, monthly, quarterly or yearly
\* frequency, the result is empty when the series has fewer than two points;
\* otherwise it has a row for the period of every daily return, and the value
\* of each row is the first original value times the product, over the
\* periods up to it, of 1 + R_q, R_q the compounded return of the period.
C16_CumReturn ==
    (IsResample /\ MethodOfCall = "cum_return"
                /\ call.frequency \in Frequencies \ {"daily"}) =>
        /\ Len(nav_series) < 2 => result = <<>>
        /\ \A i \in 2..Len(nav_series) :
               HasDate(result, PeriodEnd(RuleOfCall, sort_index(nav_series)[i].date))
        /\ \A j \in 1..Len(result) :
               Rat(result[j].value, 1) =
                   RatMul(Rat(sort_index(nav_series)[1].value, 1),
                          CompoundedUpTo(sort_index(nav_series), RuleOfCall, result, j))

\* A weekly resampling by cum_return whose result has several periods with
\* different values, the first differing from the first original value.
C16_Witness ==
    /\ IsResample
    /\ MethodOfCall = "cum_return"
    /\ call.frequency = "weekly"
    /\ Len(result) > 1
    /\ result[1].value # result[2].value
    /\ result[1].value # sort_index(nav_series)[1].value

-----------------------------------------------------------------------------
(* Malformed configuration.                                                 *)

\* What a call would return had it raised the typed configuration error.
InvalidConfiguration == [status |-> "InvalidConfiguration"]

\* C17 as stated: a call of the resampler with a frequency tag other than
\* daily, weekly, monthly, quarterly and yearly raises the typed
\* configuration error.
C17_AsStated ==
    (IsResample /\ call.frequency \notin Frequencies) =>
        result = InvalidConfiguration

\* C18 as stated: simulate_holding_period with a holding length of 0 or less
\* raises the typed configuration error, whatever the series.
C18_AsStated ==
    (call.op = "simulate_holding_period" /\ call.holding_days <= 0) =>
        result = InvalidConfiguration

-----------------------------------------------------------------------------
(* Specification of the batch analyses: a database of several funds and    *)
(* indices, some of them short of data, and one action per batch method.   *)

MaxBatch == 3

\* F1 and F5 have two weeks of values, F4 two values in one week, F3 a single
\* value; F2 has no rows.
BatchFunds == {"F1", "F2", "F3", "F4", "F5"}

BatchDatabase ==
    [funds |-> <<"F4", "F1", "F3", "F5">>,
     fund_daily_data |->
        ("F1" :> [nav |-> MkSeries(Cycle(<<2, 1, 3>>, 8), 0), cumulative_nav |-> <<>>])
        @@ ("F3" :> [nav |-> MkSeries(<<2>>, 0), cumulative_nav |-> <<>>])
        @@ ("F4" :> [nav |-> MkSeries(<<1, 2>>, 0),
                     cumulative_nav |-> MkSeries(<<2, 3>>, 0)])
        @@ ("F5" :> [nav |-> MkSeries(Cycle(<<3, 1, 2, 2>>, 8), 87),
                     cumulative_nav |-> <<>>]),
     index_daily_data |->
        ("000300" :> MkSeries(Cycle(<<3, 1, 2, 2>>, 8), 0))
        @@ ("000001" :> MkSeries(<<2>>, 0))
        @@ ("HSI" :> MkSeries(Cycle(<<2, 1, 3>>, 8), 87))]

FundIdLists == UNION {SeqsOf(BatchFunds, n) : n \in 0..MaxBatch}

FundIdListArgs == {None} \cup {Some(fund_ids) : fund_ids \in FundIdLists}

BatchArgs ==
    {[frequency |-> None, return_frequency |-> None, risk_frequency |-> None,
      resample_params |-> None],
     [frequency |-> Some("daily"), return_frequency |-> None,
      risk_frequency |-> None, resample_params |-> None],
     [frequency |-> Some("weekly"), return_frequency |-> None,
      risk_frequency |-> None, resample_params |-> Some([method |-> "cum_return"])],
     [frequency |-> None, return_frequency |-> Some("weekly"),
      risk_frequency |-> Some("daily"), resample_params |-> None]}

InitBatch ==
    /\ nav_series = <<>>
    /\ call = NoCall
    /\ result = None
    /\ fund_db = BatchDatabase
    /\ analyzer = PerformanceAnalyzer(DEFAULT_RETURN_FREQUENCY,
                                      DEFAULT_RISK_FREQUENCY, None)
    /\ config = Config
    /\ index_dtype = DatetimeIndex

\* The state after a batch call that returned `out`.
BatchReturned(c, out) ==
    /\ call' = c
    /\ result' = out.rows
    /\ analyzer' = [analyzer EXCEPT !.results_cache = out.results_cache]
    /\ UNCHANGED <<nav_series, fund_db, config, index_dtype>>

\* A run follows one batch call on a new analyzer and its repetitions.
BatchCalls(calls) ==
    IF call = NoCall THEN calls ELSE IF call \in calls THEN {call} ELSE {}

AnalyzeAllFunds ==
    \E c \in BatchCalls({[op |-> "analyze_all_funds", fund_ids |-> fund_ids,
                          args |-> args] :
                            fund_ids \in FundIdListArgs, args \in BatchArgs}) :
        BatchReturned(c, analyze_all_funds(analyzer, fund_db, c.fund_ids, c.args))

AnalyzeAllIndices ==
    \E c \in BatchCalls({[op |-> "analyze_all_indices", args |-> args] :
                            args \in BatchArgs}) :
        BatchReturned(c, analyze_all_indices(analyzer, config, fund_db, c.args))

NextBatch == AnalyzeAllFunds \/ AnalyzeAllIndices

SpecBatch == InitBatch /\ [][NextBatch]_vars

-----------------------------------------------------------------------------
(* The batch analyses: the vocabulary of the properties.                    *)

IsFundBatch == call.op = "analyze_all_funds"

IsIndexBatch == call.op = "analyze_all_indices"

\* The subjects of the batch of the call, in input order.
BatchSubjects ==
    IF IsIndexBatch THEN config.BENCHMARK_IDS
    ELSE IF call.fund_ids = None THEN get_all_funds(fund_db)
    ELSE call.fund_ids[1]

\* The record of one subject analysed alone, by an analyzer that has analysed
\* nothing before.
AnalysedAlone(id) ==
    IF IsIndexBatch
    THEN analyze_index_performance([analyzer EXCEPT !.results_cache = EmptyDict],
             fund_db, id, call.args.frequency, call.args.return_frequency,
             call.args.risk_frequency, call.args.resample_params).result
    ELSE analyze_fund_performance([analyzer EXCEPT !.results_cache = EmptyDict],
             fund_db, id, call.args.frequency, call.args.return_frequency,
             call.args.risk_frequency, call.args.resample_params).result

\* The subjects whose analysis is not empty, in input order.
AnalysableSubjects ==
    LET Analysable(id) == DOMAIN AnalysedAlone(id) # {}
    IN  SelectSeq(BatchSubjects, Analysable)

\* The values the database holds of a subject.
StoredValues(id) ==
    IF IsIndexBatch THEN get_index_daily_data(fund_db, resolve_index_id(id))
    ELSE FundSeries(get_fund_daily_data(fund_db, id))

\* C19: a batch analysis returns one row per subject whose analysis is not
\* empty, in input order, each row being the record of the subject analysed
\* alone; a subject with fewer than two values has no row.
C19_BatchRows ==
    (IsFundBatch \/ IsIndexBatch) =>
        /\ Len(result) = Len(AnalysableSubjects)
        /\ \A k \in 1..Len(result) :
              /\ result[k] = AnalysedAlone(AnalysableSubjects[k])
              /\ result[k].fund_id = AnalysableSubjects[k]
              /\ Len(StoredValues(result[k].fund_id)) >= 2

\* A batch of three funds of which the second is short of data and the other
\* two have different records.
C19_Witness ==
    /\ IsFundBatch
    /\ call.fund_ids # None
    /\ Len(BatchSubjects) = 3
    /\ Len(StoredValues(BatchSubjects[2])) < 2
    /\ Len(result) = 2
    /\ result[1].fund_id = BatchSubjects[1]
    /\ result[2].fund_id = BatchSubjects[3]
    /\ result[1].fund_id # result[2].fund_id

-----------------------------------------------------------------------------
(* Specification of the cache of results: calls of the two analyses on one *)
(* analyzer, in any order, its default frequencies and default resample    *)
(* parameters being assigned anew between calls.                           *)

CacheDatabases ==
    {Database(MkSeries(Cycle(<<2, 1, 3>>, MaxAnalyzeLen), 0), TRUE),
     Database(MkSeries(Cycle(<<3, 1, 2, 2>>, MaxAnalyzeLen), 87), FALSE)}

\* The values the attributes of the analyzer are set to.
DefaultOptions ==
    {[default_return_frequency |-> "daily", default_risk_frequency |-> "weekly",
      resample_params |-> EmptyDict],
     [default_return_frequency |-> "weekly", default_risk_frequency |-> "weekly",
      resample_params |-> EmptyDict],
     [default_return_frequency |-> "daily", default_risk_frequency |-> "daily",
      resample_params |-> EmptyDict],
     [default_return_frequency |-> "daily", default_risk_frequency |-> "weekly",
      resample_params |-> [method |-> "cum_return"]]}

CacheArgs ==
    {[frequency |-> None, return_frequency |-> None, risk_frequency |-> None,
      resample_params |-> None],
     [frequency |-> None, return_frequency |-> Some("monthly"),
      risk_frequency |-> None, resample_params |-> None],
     [frequency |-> Some("weekly"), return_frequency |-> None,
      risk_frequency |-> None, resample_params |-> None]}

InitCache ==
    /\ nav_series = <<>>
    /\ call = NoCall
    /\ result = None
    /\ fund_db \in CacheDatabases
    /\ analyzer = PerformanceAnalyzer(DEFAULT_RETURN_FREQUENCY,
                                      DEFAULT_RISK_FREQUENCY, None)
    /\ config = Config
    /\ index_dtype = DatetimeIndex

\* analyzer.default_return_frequency = ..., analyzer.default_risk_frequency =
\* ..., analyzer.resample_params = ...: the attributes are assigned, the
\* cache stays.
SetDefaults ==
    /\ \E options \in DefaultOptions :
          analyzer' =
              [analyzer EXCEPT
                  !.default_return_frequency = options.default_return_frequency,
                  !.default_risk_frequency = options.default_risk_frequency,
                  !.resample_params = options.resample_params]
    /\ call' = [op |-> "setattr"]
    /\ result' = None
    /\ UNCHANGED <<nav_series, fund_db, config, index_dtype>>

AnalyzeFundOnCache ==
    \E id \in FundIdArgs, args \in CacheArgs :
        Returned([op |-> "analyze_fund_performance", id |-> id] @@ args,
                 analyze_fund_performance(analyzer, fund_db, id, args.frequency,
                     args.return_frequency, args.risk_frequency,
                     args.resample_params))

AnalyzeIndexOnCache ==
    \E id \in IndexIdArgs, args \in CacheArgs :
        Returned([op |-> "analyze_index_performance", id |-> id] @@ args,
                 analyze_index_performance(analyzer, fund_db, id, args.frequency,
                     args.return_frequency, args.risk_frequency,
                     args.resample_params))

NextCache == SetDefaults \/ AnalyzeFundOnCache \/ AnalyzeIndexOnCache

SpecCache == InitCache /\ [][NextCache]_vars

\* The record a new analyzer with the attributes of this one computes for the
\* call.
FreshRecord ==
    IF call.op = "analyze_fund_performance"
    THEN analyze_fund_performance([analyzer EXCEPT !.results_cache = EmptyDict],
             fund_db, call.id, call.frequency, call.return_frequency,
             call.risk_frequency, call.resample_params).result
    ELSE analyze_index_performance([analyzer EXCEPT !.results_cache = EmptyDict],
             fund_db, call.id, call.frequency, call.return_frequency,
             call.risk_frequency, call.resample_params).result

\* C20 as stated: whatever calls and assignments of defaults came before,
\* the record an analysis returns is the record computed anew for the
\* subject, the frequencies and the resample parameters now in force.
C20_AsStated == IsAnalysis => result = FreshRecord


-----------------------------------------------------------------------------
(* Inputs of the core operations.                                           *)

\* A step in which the caller hands the series it holds to _resample_data.
ResampleCallStep == call = NoCall /\ call'.op = "_resample_data"

\* C21 as stated: when _resample_data returns, the series object the caller
\* passed has the index it had before the call, in values and in type, the
\* same order and the same values, and the composite component
\* configuration is unchanged.
C21_AsStated ==
    [][ResampleCallStep =>
          /\ nav_series' = nav_series
          /\ index_dtype' = index_dtype
          /\ config' = config]_vars


-----------------------------------------------------------------------------
(* Specification of several workers on one analyzer.  Each worker makes    *)
(* one call of analyze_fund_performance or analyze_index_performance; the  *)
(* steps of a call that touch the shared results_cache are the membership  *)
(* test, the read of a cached record and the assignment of a new record,   *)
(* each of them one dictionary operation.  Here `call` and `result` hold   *)
(* one entry per worker, and a call records its position `pc`, the record  *)
(* it computed (`results`) and the workers in flight when it began.        *)

Workers == {"w1", "w2"}

WorkerFunds == {"F1", "F3", "F5"}

WorkerIndices == {"INDEX_HS300", "HSI"}

WorkerArgs ==
    {[frequency |-> None, return_frequency |-> None, risk_frequency |-> None,
      resample_params |-> None],
     [frequency |-> Some("weekly"), return_frequency |-> None,
      risk_frequency |-> None, resample_params |-> Some([method |-> "cum_return"])],
     [frequency |-> None, return_frequency |-> Some("weekly"),
      risk_frequency |-> Some("daily"), resample_params |-> None]}

InFlight(w) == call[w] # NoCall /\ call[w].pc # "returned"

InitWorkers ==
    /\ nav_series = <<>>
    /\ call = [w \in Workers |-> NoCall]
    /\ result = [w \in Workers |-> None]
    /\ fund_db = BatchDatabase
    /\ analyzer = PerformanceAnalyzer(DEFAULT_RETURN_FREQUENCY,
                                      DEFAULT_RISK_FREQUENCY, None)
    /\ config = Config
    /\ index_dtype = DatetimeIndex

\* The cache key of a worker's call.
KeyOf(c) ==
    CacheKey(IF c.op = "analyze_fund_performance" THEN "fund" ELSE "index",
             c.id, c.args.frequency, c.args.return_frequency,
             c.args.risk_frequency, c.args.resample_params)

\* The record a call computes from the rows of the database.
ComputedBy(self, db, c) ==
    IF c.op = "analyze_fund_performance"
    THEN AnalyzeFund(self, get_fund_daily_data(db, c.id), c.id, c.args.frequency,
                     c.args.return_frequency, c.args.risk_frequency,
                     c.args.resample_params)
    ELSE AnalyzeIndex(self, db, c.id, resolve_index_id(c.id), c.args.frequency,
                      c.args.return_frequency, c.args.risk_frequency,
                      c.args.resample_params)

\* Mutant: the assignment replaces the cache by the new entry.
Stored_Alone(results_cache, cache_key, results) ==
    (cache_key :> results)

\* self.results_cache[cache_key] = results
Stored(results_cache, cache_key, results) ==
    (cache_key :> results) @@ results_cache

\* A worker enters an analysis and formats its cache key.
Enter(w) ==
    /\ call[w] = NoCall
    /\ \E op \in {"analyze_fund_performance", "analyze_index_performance"},
          args \in WorkerArgs :
          \E id \in IF op = "analyze_fund_performance" THEN WorkerFunds
                    ELSE WorkerIndices :
              call' = [call EXCEPT ![w] =
                          [op |-> op, id |-> id, args |-> args, pc |-> "contains",
                           results |-> EmptyDict,
                           during |-> {v \in Workers : InFlight(v)}]]
    /\ UNCHANGED <<nav_series, result, fund_db, analyzer, config, index_dtype>>

\* if cache_key in self.results_cache
Contains(w) ==
    /\ call[w] # NoCall
    /\ call[w].pc = "contains"
    /\ call' = [call EXCEPT ![w].pc =
                   IF KeyOf(call[w]) \in DOMAIN analyzer.results_cache
                   THEN "get" ELSE "compute"]
    /\ UNCHANGED <<nav_series, result, fund_db, analyzer, config, index_dtype>>

\* return self.results_cache[cache_key]
ReturnCached(w) ==
    /\ call[w] # NoCall
    /\ call[w].pc = "get"
    /\ result' = [result EXCEPT ![w] = analyzer.results_cache[KeyOf(call[w])]]
    /\ call' = [call EXCEPT ![w].pc = "returned"]
    /\ UNCHANGED <<nav_series, fund_db, analyzer, config, index_dtype>>

\* The rows are read and the record is computed; a call short of data
\* returns {} here.
Compute(w) ==
    /\ call[w] # NoCall
    /\ call[w].pc = "compute"
    /\ LET results == ComputedBy(analyzer, fund_db, call[w]) IN
          IF DOMAIN results = {}
          THEN /\ result' = [result EXCEPT ![w] = EmptyDict]
               /\ call' = [call EXCEPT ![w].pc = "returned"]
          ELSE /\ result' = result
               /\ call' = [call EXCEPT ![w].pc = "store", ![w].results = results]
    /\ UNCHANGED <<nav_series, fund_db, analyzer, config, index_dtype>>

\* self.results_cache[cache_key] = results; return results
Store(w) ==
    /\ call[w] # NoCall
    /\ call[w].pc = "store"
    /\ analyzer' = [analyzer EXCEPT !.results_cache =
                       Stored(analyzer.results_cache, KeyOf(call[w]),
                              call[w].results)]
    /\ result' = [result EXCEPT ![w] = call[w].results]
    /\ call' = [call EXCEPT ![w].pc = "returned"]
    /\ UNCHANGED <<nav_series, fund_db, config, index_dtype>>

NextWorkers ==
    \E w \in Workers :
        Enter(w) \/ Contains(w) \/ ReturnCached(w) \/ Compute(w) \/ Store(w)

SpecWorkers == InitWorkers /\ [][NextWorkers]_vars

-----------------------------------------------------------------------------
(* Several workers: the vocabulary of the properties.                       *)

HasReturned(w) == call[w] # NoCall /\ call[w].pc = "returned"

\* The record the call returns when it runs alone, on an analyzer with the
\* same defaults and an empty cache.
RunAlone(c) ==
    IF c.op = "analyze_fund_performance"
    THEN analyze_fund_performance(
             [analyzer EXCEPT !.results_cache = EmptyDict], fund_db, c.id,
             c.args.frequency, c.args.return_frequency, c.args.risk_frequency,
             c.args.resample_params).result
    ELSE analyze_index_performance(
             [analyzer EXCEPT !.results_cache = EmptyDict], fund_db, c.id,
             c.args.frequency, c.args.return_frequency, c.args.risk_frequency,
             c.args.resample_params).result

\* The keys of the calls that succeeded.
SuccessfulKeys ==
    {KeyOf(call[w]) : w \in {v \in Workers : DOMAIN RunAlone(call[v]) # {}}}

\* C22: each call that has returned returned the record it returns when run
\* alone, and once all calls have finished the cache holds, for the key of
\* each successful call and for no other key, the record computed for that
\* key.
C22_Workers ==
    /\ \A w \in Workers : HasReturned(w) => result[w] = RunAlone(call[w])
    /\ (\A w \in Workers : HasReturned(w)) =>
          /\ DOMAIN analyzer.results_cache = SuccessfulKeys
          /\ \A w \in Workers :
                DOMAIN RunAlone(call[w]) # {} =>
                    analyzer.results_cache[KeyOf(call[w])] = RunAlone(call[w])

\* Both calls have finished, they were for different subjects, both
\* succeeded, and the one began while the other was in flight.
C22_Witness ==
    /\ \A w \in Workers : HasReturned(w) /\ DOMAIN result[w] # {}
    /\ call["w1"].id # call["w2"].id
    /\ call["w2"].during = {"w1"}
    /\ result["w1"] # result["w2"]


-----------------------------------------------------------------------------
(* PerformanceAnalyzer: the value series of a subject.                      *)

\* A column of the database read as floats.
ToFloat(rows) ==
    [i \in 1..Len(rows) |-> [date |-> rows[i].date, value |-> Rat(rows[i].value, 1)]]

\* _get_fund_nav_series
get_fund_nav_series(db, fund_id) == ToFloat(FundSeries(get_fund_daily_data(db, fund_id)))

\* _get_index_nav_series: the stored closing values of the resolved id, or
\* the synthesized series of a composite id that has none.
get_index_nav_series(cfg, db, index_id) ==
    IF Len(get_index_daily_data(db, resolve_index_id(index_id))) > 0
    THEN Series(ToFloat(get_index_daily_data(db, resolve_index_id(index_id))))
    ELSE IF is_composite_index(cfg, resolve_index_id(index_id))
    THEN build_composite_nav_from_db(cfg, db, resolve_index_id(index_id))
    ELSE Series(<<>>)

-----------------------------------------------------------------------------
(* Specification of the holding analyses: a database of funds and indices  *)
(* with histories around the length the analyses ask for, and one action   *)
(* per method.                                                              *)

MaxExtra == 0

HoldingLengths == (MinAnalysisPoints - 1)..(MinAnalysisPoints + MaxExtra)

HoldingPatterns == {<<2, 1, 3>>, <<3, 3, 1, 2>>}

\* A history that meets the relaxed requirement of the simulator for the
\* relaxed holding length and no more.
RelaxedLength == RelaxedHoldingDays + RelaxedBuffer + 1

\* F1 has unit values only, F2 both kinds of values; 000300 has as many
\* values as the funds, 000001 half as many, HSI a long history, and
\* MED_INNOV no rows, while its two components have three values each.
HoldingDatabase(pattern, n) ==
    [funds |-> <<"F1", "F2">>,
     fund_daily_data |->
        ("F1" :> [nav |-> MkSeries(Cycle(pattern, n), 0), cumulative_nav |-> <<>>])
        @@ ("F2" :> [nav |-> MkSeries(Cycle(<<2>>, n), 3),
                     cumulative_nav |-> MkSeries(Cycle(pattern, n), 3)]),
     index_daily_data |->
        ("000300" :> MkSeries(Cycle(pattern, n), 0))
        @@ ("000001" :> MkSeries(Cycle(pattern, n \div 2), 0))
        @@ ("HSI" :> MkSeries(Cycle(pattern, RelaxedLength), 3))
        @@ ("000933" :> MkSeries(<<1, 2, 1>>, 0))
        @@ ("000012" :> MkSeries(<<2, 2, 4>>, 0))]

HoldingDatabases ==
    {HoldingDatabase(pattern, n) : pattern \in HoldingPatterns, n \in HoldingLengths}

HoldingFundArgs == {"F1", "F2", "F9"}

HoldingIndexArgs == {"000300", "000001", "MED_INNOV"}

BenchmarkArgs == {"000300", "000001", "HSI", "MED_INNOV"}

FundPeriodArgs == {Some(<<1, 4>>), Some(<<MinAnalysisPoints - BenchmarkBuffer, 2>>)}

IndexPeriodArgs == FundPeriodArgs \cup {None}

BenchmarkIdArgs == {None, Some(<<"000300.SH", "INDEX_HS300", "HSI">>)}

\* Identifiers of indices as callers write them: stored codes, codes with a
\* suffix, legacy codes and a composite.
IndexLookupArgs ==
    {"000001", "000001.SH", "INDEX_SSE", "000300.SH", "INDEX_HS300",
     "MED_INNOV", "INDEX_MED_INNOV", "CSI500"}

\* The identifiers whose analysis is asked for: those of short histories.
AnalysisLookupArgs ==
    {"MED_INNOV", "INDEX_MED_INNOV", "MED_INNOV.SH", "000933", "000012", "CSI500"}

LookupFrequencyArgs == {None, Some("daily"), Some("weekly")}

BenchmarkDayArgs ==
    {-1, 0, 1, 2, MinAnalysisPoints - BenchmarkBuffer, RelaxedHoldingDays}

InitHolding ==
    /\ nav_series = <<>>
    /\ call = NoCall
    /\ result = None
    /\ fund_db \in HoldingDatabases
    /\ analyzer = PerformanceAnalyzer(DEFAULT_RETURN_FREQUENCY,
                                      DEFAULT_RISK_FREQUENCY, None)
    /\ config = Config
    /\ index_dtype = DatetimeIndex

\* The state after a call of the simulator object that returned `out`.
HoldingReturned(c, out) ==
    /\ call = NoCall
    /\ call' = c
    /\ result' = out
    /\ UNCHANGED <<nav_series, fund_db, analyzer, config, index_dtype>>

AnalyzeFundHolding ==
    \E fund_id \in HoldingFundArgs, holding_periods \in FundPeriodArgs,
       use_cumulative \in BOOLEAN, benchmark_ids \in BenchmarkIdArgs :
        HoldingReturned([op |-> "analyze_fund_holding", id |-> fund_id,
                         holding_periods |-> holding_periods,
                         use_cumulative |-> use_cumulative,
                         benchmark_ids |-> benchmark_ids],
                        analyze_fund_holding(config, fund_db, fund_id, holding_periods,
                                             use_cumulative, benchmark_ids))

AnalyzeIndexHolding ==
    \E index_id \in HoldingIndexArgs, holding_periods \in IndexPeriodArgs :
        HoldingReturned([op |-> "analyze_index_holding", id |-> index_id,
                         holding_periods |-> holding_periods],
                        analyze_index_holding(fund_db, index_id, holding_periods))

CalculateHoldingReturns ==
    \E benchmark_id \in BenchmarkArgs, holding_days \in BenchmarkDayArgs :
        HoldingReturned([op |-> "calculate_holding_returns", id |-> benchmark_id,
                         holding_days |-> holding_days],
                        calculate_holding_returns(fund_db, benchmark_id, holding_days))

GetBenchmarkReturns ==
    \E index_id \in BenchmarkArgs, holding_days \in BenchmarkDayArgs :
        HoldingReturned([op |-> "get_benchmark_returns", id |-> index_id,
                         holding_days |-> holding_days],
                        get_benchmark_returns(fund_db, index_id, holding_days))

\* _get_index_nav_series of the analyzer.
GetIndexNavSeries ==
    \E index_id \in IndexLookupArgs :
        HoldingReturned([op |-> "_get_index_nav_series", id |-> index_id],
                        get_index_nav_series(config, fund_db, index_id))

\* analyze_index_performance of a new analyzer: the record is returned and
\* cached.
AnalyzeIndexOf(c, out) ==
    /\ call = NoCall
    /\ call' = c
    /\ result' = out.result
    /\ analyzer' = [analyzer EXCEPT !.results_cache = out.results_cache]
    /\ UNCHANGED <<nav_series, fund_db, config, index_dtype>>

AnalyzeIndexLookup ==
    \E index_id \in AnalysisLookupArgs, frequency \in LookupFrequencyArgs :
        AnalyzeIndexOf([op |-> "analyze_index_performance", id |-> index_id,
                        frequency |-> frequency],
                       analyze_index_performance(analyzer, fund_db, index_id, frequency,
                                                 None, None, None))

NextHolding ==
    \/ AnalyzeFundHolding
    \/ AnalyzeIndexHolding
    \/ CalculateHoldingReturns
    \/ GetBenchmarkReturns
    \/ GetIndexNavSeries
    \/ AnalyzeIndexLookup

SpecHolding == InitHolding /\ [][NextHolding]_vars

-----------------------------------------------------------------------------
(* The holding analyses: the vocabulary of the properties.                  *)

\* A holding analysis that returned a result with a summary.
HasSummary ==
    /\ call.op \in {"analyze_fund_holding", "analyze_index_holding"}
    /\ "summary" \in DOMAIN result

\* The returns of the rows of one holding length's simulation result.
ReturnsOf(d) ==
    [k \in 1..Len(result.simulation_results[d]) |->
        result.simulation_results[d][k].holding_return]

\* The total of a column: each value it holds, times how often it holds it.
RECURSIVE TotalOf(_, _)
TotalOf(col, vals) ==
    IF vals = {} THEN Zero
    ELSE LET v == CHOOSE x \in vals : TRUE IN
         RatAdd(RatMul(v, Rat(Cardinality({k \in 1..Len(col) : col[k] = v}), 1)),
                TotalOf(col, vals \ {v}))

Wins(col) == Cardinality({k \in 1..Len(col) : col[k].n > 0})

\* What C23 states of the summary of one holding length, of the rows of that
\* length's simulation result and of their returns.
SummaryOf(summary, rows, returns) ==
    /\ summary.count = Len(rows)
    /\ RatMul(summary.mean_return, Rat(summary.count, 1))
           = TotalOf(returns, {returns[k] : k \in 1..Len(returns)})
    /\ summary.win_rate.n * Len(rows) = Wins(returns) * summary.win_rate.d
    /\ RatLeq(Zero, summary.win_rate)
    /\ RatLeq(summary.win_rate, One)
    /\ RatLeq(summary.min_return, summary.median_return)
    /\ RatLeq(summary.median_return, summary.max_return)

\* C23: for every holding length in the summary of a holding analysis,
\* count is the number of rows of that length's simulation result,
\* mean_return times count is the total of the holding returns, win_rate
\* is the share of rows with a positive holding return and lies in [0, 1],
\* and min_return <= median_return <= max_return.
C23_Summary ==
    HasSummary =>
        \A d \in DOMAIN result.summary :
            /\ d \in DOMAIN result.simulation_results
            /\ SummaryOf(result.summary[d], result.simulation_results[d], ReturnsOf(d))

\* A summary with a holding length whose returns are positive, zero and
\* negative, so that minimum, median and maximum differ.
C23_Witness ==
    /\ HasSummary
    /\ \E d \in DOMAIN result.summary :
          /\ RatLess(result.summary[d].min_return, result.summary[d].median_return)
          /\ RatLess(result.summary[d].median_return, result.summary[d].max_return)
          /\ RatLess(Zero, result.summary[d].win_rate)
          /\ \E k \in 1..Len(ReturnsOf(d)) : ReturnsOf(d)[k] = Zero


\* A call of one of the two benchmark methods.
IsBenchmarkReturns ==
    call.op \in {"calculate_holding_returns", "get_benchmark_returns"}

\* The returns are the holding_return column of a simulation result.
SameReturns(returns, sim) ==
    /\ returns.status = sim.status
    /\ returns.rows = Column(sim.rows, "holding_return")
    /\ (returns.rows = <<>>) <=> (sim.rows = <<>>)

\* C25 as stated: for the same value series and the same holding length,
\* calculate_holding_returns and get_benchmark_returns return exactly the
\* holding_return column of simulate_holding_period, and are empty exactly
\* when simulate_holding_period is empty.
C25_AsStated ==
    IsBenchmarkReturns =>
        SameReturns(result,
                    simulate_holding_period(get_index_daily_data(fund_db, call.id),
                                            call.holding_days, DefaultMinDataPoints))


-----------------------------------------------------------------------------
(* The comparison tables of the analyzer.  The Chinese row and column      *)
(* labels are written in English; a label that spells out the dates of its *)
(* window is the record of its text and these dates.                       *)

DEFAULT_BENCHMARK == "000300"

FUND_BENCHMARKS ==
    ("000001.OF" :> "000300") @@ ("510300.OF" :> "000300")
    @@ ("519133.OF" :> "000300") @@ ("169105.OF" :> "HSI")
    @@ ("003095.OF" :> "MED_INNOV")

get_fund_benchmark(fund_code) == Get(FUND_BENCHMARKS, fund_code, DEFAULT_BENCHMARK)

DEFAULT_COMPARISON_INDICES == <<"000300", "000001", "HSI">>

FUND_COMPARISON_INDICES ==
    ("000001.OF" :> <<"000300", "000001", "HSI">>)
    @@ ("510300.OF" :> <<"000300", "000001">>)
    @@ ("519133.OF" :> <<"000300", "000001">>)
    @@ ("169105.OF" :> <<"HSI", "000300">>)
    @@ ("003095.OF" :> <<"MED_INNOV", "000300", "000001">>)

get_fund_comparison_indices(fund_code) ==
    Get(FUND_COMPARISON_INDICES, fund_code, DEFAULT_COMPARISON_INDICES)

\* The display_name of the entries of config.INDICES.
DisplayNames ==
    ("000001" :> "SSE Composite") @@ ("000300" :> "CSI 300")
    @@ ("HSI" :> "Hang Seng") @@ ("000933" :> "CSI Medicine")
    @@ ("000012" :> "SSE Treasury") @@ ("MED_INNOV" :> "Medical Innovation")
    @@ ("CUSTOM_COMPOSITE" :> "Custom")

get_benchmark_display_name(benchmark_id) ==
    Get(DisplayNames, normalize_index_code(benchmark_id), benchmark_id)

\* The positions of the points of a series from start_date to end_date.
Within(series, start_date, end_date) ==
    {i \in 1..Len(series) : start_date <= series[i].date /\ series[i].date <= end_date}

Lowest(positions) == CHOOSE i \in positions : \A j \in positions : i <= j

Highest(positions) == CHOOSE i \in positions : \A j \in positions : j <= i

\* x / y - 1 for values x and y, y not zero.
Growth(x, y) == Rat(x.n * y.d - y.n * x.d, x.d * y.n)

\* _calc_period_return: None or Some(return).
calc_period_return(series, start_date, end_date) ==
    IF Cardinality(Within(series, start_date, end_date)) < 2 THEN None
    ELSE Some(Growth(series[Highest(Within(series, start_date, end_date))].value,
                     series[Lowest(Within(series, start_date, end_date))].value))

\* _safe_diff on optional numbers.
safe_diff(left, right) ==
    IF left = None \/ right = None THEN NaN ELSE RatSub(left[1], right[1])

\* Timestamp.year of a day, and the first and the last day of a year.
FirstYear == 2024

YearOf(d) == FirstYear + Cardinality({e \in YearEndDays : e < d})

YearStart(year) == DaysBefore(12 * (year - FirstYear))

YearEnd(year) == DaysBefore(12 * (year - FirstYear + 1)) - 1

\* Timestamp.replace(day=1)
MonthStart(d) == Highest({DaysBefore(m) : m \in {k \in 0..Len(DaysInMonth) : DaysBefore(k) <= d}})

Period(text, start_date, end_date) ==
    [label |-> [text |-> text, start |-> start_date, end |-> end_date],
     start |-> start_date, end |-> end_date]

\* Mutant: the window of the first year starts on 1 January as well.
YearPeriods_Whole(fund_start, fund_end) ==
    [k \in 1..(YearOf(fund_end) - YearOf(fund_start)) |->
        Period("year", YearStart(YearOf(fund_start) + k - 1),
               YearEnd(YearOf(fund_start) + k - 1))]

\* The windows of the loop over range(start_year, end_year).
YearPeriods(fund_start, fund_end) ==
    [k \in 1..(YearOf(fund_end) - YearOf(fund_start)) |->
        Period("year",
               IF k = 1 THEN fund_start ELSE YearStart(YearOf(fund_start) + k - 1),
               YearEnd(YearOf(fund_start) + k - 1))]

\* The windows of generate_fund_returns_table, in the order of its rows.
ReturnPeriods(fund_start, fund_end) ==
    <<Period("inception", fund_start, fund_end)>>
    \o YearPeriods(fund_start, fund_end)
    \o <<Period("year to date", YearStart(YearOf(fund_end)), fund_end),
         Period("month to date", MonthStart(fund_end), fund_end)>>

\* The list with the ids of `more` appended that it does not hold yet.
RECURSIVE AppendNew(_, _, _)
AppendNew(ids, more, k) ==
    IF k = 0 THEN ids
    ELSE LET before == AppendNew(ids, more, k - 1) IN
         IF \E j \in 1..Len(before) : before[j] = more[k] THEN before
         ELSE Append(before, more[k])

\* The ids whose series the table shows: the benchmark, then the comparison
\* indices.
TableIndexIds(benchmark_id, comparison_indices) ==
    AppendNew(IF benchmark_id = "" THEN <<>> ELSE <<benchmark_id>>,
              comparison_indices, Len(comparison_indices))

ColumnName(index_id) == get_benchmark_display_name(index_id) \o " return"

\* One row of the table: the label, the return of the fund and of every
\* index over the window, and the excess return over the benchmark.  Of two
\* ids with one display name the later one fills the column.
ReturnRow(period, fund_nav, index_ids, series_map, benchmark_id) ==
    [period |-> period.label,
     fund   |-> calc_period_return(fund_nav, period.start, period.end),
     index  |-> [name \in {ColumnName(index_ids[k]) : k \in 1..Len(index_ids)} |->
                    calc_period_return(
                        series_map[Highest({k \in 1..Len(index_ids) :
                                               ColumnName(index_ids[k]) = name})].series,
                        period.start, period.end)],
     excess |-> IF benchmark_id = "" THEN NaN
                ELSE safe_diff(
                         calc_period_return(fund_nav, period.start, period.end),
                         calc_period_return(
                             series_map[Highest({k \in 1..Len(index_ids) :
                                 ColumnName(index_ids[k]) = ColumnName(benchmark_id)})].series,
                             period.start, period.end))]

\* The rows once the series are read; an exception of a synthesis ends the
\* call.
ReturnRows(periods, fund_nav, index_ids, series_map, benchmark_id) ==
    IF \E k \in 1..Len(index_ids) : series_map[k].status # "ok"
    THEN [status |-> "ValueError", rows |-> <<>>]
    ELSE [status |-> "ok",
          rows |-> [r \in 1..Len(periods) |->
                       ReturnRow(periods[r], fund_nav, index_ids, series_map,
                                 benchmark_id)]]

ReturnsTable(cfg, db, fund_nav, index_ids, benchmark_id) ==
    IF Len(fund_nav) = 0 THEN EmptyDataFrame
    ELSE ReturnRows(ReturnPeriods(fund_nav[1].date, fund_nav[Len(fund_nav)].date),
                    fund_nav, index_ids,
                    [k \in 1..Len(index_ids) |->
                        get_index_nav_series(cfg, db, index_ids[k])],
                    benchmark_id)

\* generate_fund_returns_table; benchmark_id and comparison_indices are None
\* or Some(value).
generate_fund_returns_table(cfg, db, fund_id, benchmark_id, comparison_indices) ==
    ReturnsTable(cfg, db, get_fund_nav_series(db, fund_id),
                 TableIndexIds(IF benchmark_id = None THEN get_fund_benchmark(fund_id)
                               ELSE benchmark_id[1],
                               IF comparison_indices = None
                               THEN get_fund_comparison_indices(fund_id)
                               ELSE comparison_indices[1]),
                 IF benchmark_id = None THEN get_fund_benchmark(fund_id)
                 ELSE benchmark_id[1])


\* The year-by-month grid.
FUND_MONTHLY_COMPARISON ==
    ("000001.OF" :> <<"000300">>) @@ ("510300.OF" :> <<"000300">>)
    @@ ("519133.OF" :> <<"000300">>) @@ ("169105.OF" :> <<"HSI">>)
    @@ ("003095.OF" :> <<"MED_INNOV">>)

\* config.get_fund_monthly_comparison, as _get_fund_monthly_comparison
\* returns it.
get_fund_monthly_comparison(fund_code) ==
    Get(FUND_MONTHLY_COMPARISON, fund_code, get_fund_comparison_indices(fund_code))

\* Timestamp.month of a day.
MonthOf(d) == (Cardinality({e \in MonthEndDays : e < d}) % 12) + 1

\* series.pct_change().dropna() of a resampled series.
PeriodReturns(series) ==
    [i \in 1..(IF Len(series) = 0 THEN 0 ELSE Len(series) - 1) |->
        [date  |-> series[i + 1].date,
         value |-> Growth(series[i + 1].value, series[i].value)]]

\* The monthly returns of a value series.
MonthlyReturns(series, resample_params) ==
    PeriodReturns(resample_data(series, "monthly", resample_params))

\* (1 + x).prod() over the returns at the positions given, NaN left out.
RECURSIVE ProdUpTo(_, _, _)
ProdUpTo(returns, positions, k) ==
    IF k = 0 THEN One
    ELSE IF k \in positions /\ returns[k].value # NaN
    THEN RatMul(ProdUpTo(returns, positions, k - 1), RatAdd(One, returns[k].value))
    ELSE ProdUpTo(returns, positions, k - 1)

Compounded(returns, positions) ==
    RatSub(ProdUpTo(returns, positions, Len(returns)), One)

\* The column a frame indexed by the dates of `index` gets from a series:
\* the value of the series on each date, NaN where it has none.
Aligned(index, series) ==
    [i \in 1..Len(index) |->
        [date  |-> index[i].date,
         value |-> IF HasDate(series, index[i].date)
                   THEN ValueOn(series, index[i].date) ELSE NaN]]

\* (left > right).mean() over the positions given; a comparison with NaN is
\* false.
WinShare(left, right, positions) ==
    Rat(Cardinality({i \in positions :
                        /\ left[i].value # NaN
                        /\ right[i].value # NaN
                        /\ RatLess(right[i].value, left[i].value)}),
        Cardinality(positions))

\* The first of the monthly comparison ids that is not the benchmark, else
\* the first of them; None for an empty list.
ComparisonId(monthly_comp, benchmark_id) ==
    IF Len(monthly_comp) = 0 THEN None
    ELSE IF \E k \in 1..Len(monthly_comp) :
                normalize_index_code(monthly_comp[k]) # normalize_index_code(benchmark_id)
    THEN Some(monthly_comp[Lowest({k \in 1..Len(monthly_comp) :
                  normalize_index_code(monthly_comp[k])
                      # normalize_index_code(benchmark_id)})])
    ELSE Some(monthly_comp[1])

\* The row of one year of the grid.
YearRow(year, fund, benchmark, comparison, comparison_display) ==
    LET months == {i \in 1..Len(fund) : YearOf(fund[i].date) = year} IN
    [label            |-> year,
     months           |-> [m \in {MonthOf(fund[i].date) : i \in months} |->
                              fund[CHOOSE i \in months : MonthOf(fund[i].date) = m].value],
     yearly_return    |-> Compounded(fund, months),
     benchmark        |-> IF benchmark = None THEN NaN
                          ELSE Compounded(benchmark[1], months),
     benchmark_win    |-> IF benchmark = None THEN NaN
                          ELSE WinShare(fund, benchmark[1], months),
     comparison       |-> comparison_display,
     comparison_return |-> IF comparison_display = None THEN NaN
                           ELSE IF comparison = None THEN None
                           ELSE Compounded(comparison[1], months),
     comparison_win   |-> IF comparison_display = None THEN NaN
                          ELSE IF comparison = None THEN None
                          ELSE WinShare(fund, comparison[1], months)]

\* The row 'since inception': the fund's returns compounded, and the
\* returns of the benchmark and of the comparison index compounded.
InceptionRow(fund, benchmark_returns, comparison_returns, comparison_display) ==
    [label            |-> "since inception",
     months           |-> <<>>,
     yearly_return    |-> Compounded(fund, 1..Len(fund)),
     benchmark        |-> IF Len(benchmark_returns) = 0 THEN NaN
                          ELSE Compounded(benchmark_returns, 1..Len(benchmark_returns)),
     benchmark_win    |-> IF Len(benchmark_returns) = 0 THEN NaN
                          ELSE WinShare(Aligned(benchmark_returns, fund), benchmark_returns,
                                        1..Len(benchmark_returns)),
     comparison       |-> comparison_display,
     comparison_return |-> IF comparison_display = None \/ Len(comparison_returns) = 0
                           THEN NaN
                           ELSE Compounded(comparison_returns, 1..Len(comparison_returns)),
     comparison_win   |-> IF comparison_display = None \/ Len(comparison_returns) = 0
                          THEN NaN
                          ELSE WinShare(Aligned(comparison_returns, fund), comparison_returns,
                                        1..Len(comparison_returns))]

\* The years of the dates of a series, ascending.
YearsOf(series) ==
    LET years == {YearOf(series[i].date) : i \in 1..Len(series)}
    IN  SelectSeq([k \in 1..Len(DaysInMonth) \div 12 |-> FirstYear + k - 1],
                  LAMBDA y : y \in years)

\* The grid once the monthly returns are computed.
MonthlyGrid(fund, benchmark_returns, comparison_returns, comparison_display) ==
    IF Len(fund) = 0 THEN EmptyDataFrame
    ELSE [status |-> "ok",
          rows |->
              [k \in 1..Len(YearsOf(fund)) |->
                  YearRow(YearsOf(fund)[k], fund,
                          IF Len(benchmark_returns) = 0 THEN None
                          ELSE Some(Aligned(fund, benchmark_returns)),
                          IF Len(comparison_returns) = 0 THEN None
                          ELSE Some(Aligned(fund, comparison_returns)),
                          comparison_display)]
              \o <<InceptionRow(fund, benchmark_returns, comparison_returns,
                                comparison_display)>>]

\* The part of generate_monthly_returns_table after the monthly returns of
\* the fund are found not to be empty.
MonthlyTable(fund, benchmark_id, benchmark_nav, comparison_id, comparison_nav, resample_params) ==
    IF benchmark_nav.status # "ok" \/ comparison_nav.status # "ok"
    THEN [status |-> "ValueError", rows |-> <<>>]
    ELSE MonthlyGrid(fund,
                     MonthlyReturns(benchmark_nav.series, resample_params),
                     MonthlyReturns(comparison_nav.series, resample_params),
                     IF comparison_id = None \/ Len(comparison_nav.series) = 0 THEN None
                     ELSE Some(get_benchmark_display_name(comparison_id[1])))

\* The series of an index that is read only if its id is truthy.
SeriesIfGiven(cfg, db, index_id) ==
    IF index_id = None \/ index_id = Some("") THEN Series(<<>>)
    ELSE get_index_nav_series(cfg, db, index_id[1])

\* generate_monthly_returns_table from the first reading of the benchmark
\* on.
GridFor(self, cfg, db, fund_id, benchmark_id, resample_params) ==
    IF get_index_nav_series(cfg, db, benchmark_id).status # "ok"
    THEN [status |-> "ValueError", rows |-> <<>>]
    ELSE IF Len(MonthlyReturns(get_fund_nav_series(db, fund_id), resample_params)) = 0
    THEN EmptyDataFrame
    ELSE MonthlyTable(MonthlyReturns(get_fund_nav_series(db, fund_id), resample_params),
                      benchmark_id,
                      SeriesIfGiven(cfg, db, Some(benchmark_id)),
                      ComparisonId(get_fund_monthly_comparison(fund_id), benchmark_id),
                      SeriesIfGiven(cfg, db,
                          ComparisonId(get_fund_monthly_comparison(fund_id), benchmark_id)),
                      resample_params)

\* generate_monthly_returns_table; benchmark_id and resample_params are None
\* or Some(value).
generate_monthly_returns_table(self, cfg, db, fund_id, benchmark_id, resample_params) ==
    IF get_fund_daily_data(db, fund_id) = EmptyFrame THEN EmptyDataFrame
    ELSE GridFor(self, cfg, db, fund_id,
            IF benchmark_id = None THEN get_fund_benchmark(fund_id) ELSE benchmark_id[1],
            IF TruthyDict(resample_params) THEN resample_params[1]
            ELSE self.resample_params)

-----------------------------------------------------------------------------
(* Specification of the comparison tables: funds whose values fall on a    *)
(* few days of three years, indices with longer and with shorter           *)
(* histories, and one action per table.                                    *)

MaxPoints == 3

\* 2024-01-01, 2024-02-15, 2024-03-31, 2024-07-01, 2024-12-31, 2025-01-01,
\* 2025-02-10, 2025-12-31, 2026-01-01, 2026-02-05.
TableDays == <<0, 45, 90, 182, 365, 366, 406, 730, 731, 766>>

\* The series with a value on each of the chosen days of TableDays.
OnDays(chosen, pattern) ==
    LET kept == SelectSeq([i \in 1..Len(TableDays) |-> i], LAMBDA i : i \in chosen)
    IN  [k \in 1..Len(kept) |->
            [date |-> TableDays[kept[k]], value |-> Cycle(pattern, Len(kept))[k]]]

DayChoices ==
    {chosen \in SUBSET (1..Len(TableDays)) : Cardinality(chosen) \in 1..MaxPoints}

\* Both funds have the chosen days; 000300 has every day, HSI the days of
\* 2025 and 2026 only, 000001 and the components of MED_INNOV none.
TableDatabase(chosen) ==
    [funds |-> <<"F1", "169105.OF">>,
     fund_daily_data |->
        ("F1" :> [nav |-> OnDays(chosen, <<2, 1, 3>>), cumulative_nav |-> <<>>])
        @@ ("169105.OF" :> [nav |-> OnDays(chosen, <<1>>),
                            cumulative_nav |-> OnDays(chosen, <<1, 3, 2>>)]),
     index_daily_data |->
        ("000300" :> OnDays(1..Len(TableDays), <<3, 1, 2, 2>>))
        @@ ("HSI" :> OnDays(6..Len(TableDays), <<1, 2>>))]

TableDatabases == {TableDatabase(chosen) : chosen \in DayChoices}

TableFundArgs == {"F1", "169105.OF", "F9"}

TableBenchmarkArgs == {None, Some(""), Some("INDEX_HS300"), Some("HSI.HK")}

ComparisonArgs == {None, Some(<<>>), Some(<<"000300.SH", "MED_INNOV">>)}

InitTables ==
    /\ nav_series = <<>>
    /\ call = NoCall
    /\ result = None
    /\ fund_db \in TableDatabases
    /\ analyzer = PerformanceAnalyzer(DEFAULT_RETURN_FREQUENCY,
                                      DEFAULT_RISK_FREQUENCY, None)
    /\ config = Config
    /\ index_dtype = DatetimeIndex

GenerateFundReturnsTable ==
    /\ call = NoCall
    /\ \E fund_id \in TableFundArgs, benchmark_id \in TableBenchmarkArgs,
          comparison_indices \in ComparisonArgs :
          /\ call' = [op |-> "generate_fund_returns_table", fund_id |-> fund_id,
                      benchmark_id |-> benchmark_id,
                      comparison_indices |-> comparison_indices]
          /\ result' = generate_fund_returns_table(config, fund_db, fund_id, benchmark_id,
                                                   comparison_indices)
    /\ UNCHANGED <<nav_series, fund_db, analyzer, config, index_dtype>>

GenerateMonthlyReturnsTable ==
    /\ call = NoCall
    /\ \E fund_id \in TableFundArgs, benchmark_id \in TableBenchmarkArgs,
          resample_params \in {None, Some([method |-> "cum_return"])} :
          /\ call' = [op |-> "generate_monthly_returns_table", fund_id |-> fund_id,
                      benchmark_id |-> benchmark_id,
                      resample_params |-> resample_params]
          /\ result' = generate_monthly_returns_table(analyzer, config, fund_db, fund_id,
                                                      benchmark_id, resample_params)
    /\ UNCHANGED <<nav_series, fund_db, analyzer, config, index_dtype>>

NextTables == GenerateFundReturnsTable \/ GenerateMonthlyReturnsTable

SpecTables == InitTables /\ [][NextTables]_vars

-----------------------------------------------------------------------------
(* The comparison tables: the vocabulary of the properties.                 *)

\* A returns table with rows.
IsReturnsTable ==
    /\ call.op = "generate_fund_returns_table"
    /\ result.status = "ok"
    /\ Len(result.rows) > 0

\* The value series of the subject of the call, and its first and last date.
SubjectSeries == FundSeries(get_fund_daily_data(fund_db, call.fund_id))

SubjectStart == SubjectSeries[1].date

SubjectEnd == SubjectSeries[Len(SubjectSeries)].date

\* The window of a row.
WindowOf(row) == <<row.period.start, row.period.end>>

\* The rows between the since-inception row and the year-to-date row.
YearRows == SubSeq(result.rows, 2, Len(result.rows) - 2)

\* The calendar years the subject's history spans in full.
FullYears ==
    {y \in YearOf(SubjectStart)..YearOf(SubjectEnd) :
        SubjectStart <= YearStart(y) /\ YearEnd(y) <= SubjectEnd}

\* The calendar years before the last year of the subject's history.
EarlierYears == YearOf(SubjectStart)..(YearOf(SubjectEnd) - 1)

\* The first, the last two rows, and what every row holds of the indices:
\* the return of each index over the window of the row.
FixedRows ==
    /\ Len(result.rows) >= 3
    /\ result.rows[1].period.text = "inception"
    /\ WindowOf(result.rows[1]) = <<SubjectStart, SubjectEnd>>
    /\ result.rows[Len(result.rows) - 1].period.text = "year to date"
    /\ WindowOf(result.rows[Len(result.rows) - 1])
           = <<YearStart(YearOf(SubjectEnd)), SubjectEnd>>
    /\ result.rows[Len(result.rows)].period.text = "month to date"
    /\ WindowOf(result.rows[Len(result.rows)]) = <<MonthStart(SubjectEnd), SubjectEnd>>
    /\ \A r \in 1..Len(result.rows) :
          \A id \in {"000300", "HSI"} :
              ColumnName(id) \in DOMAIN result.rows[r].index =>
                  result.rows[r].index[ColumnName(id)]
                      = calc_period_return(
                            ToFloat(get_index_daily_data(fund_db, id)),
                            result.rows[r].period.start, result.rows[r].period.end)

\* C24 as stated: the rows are, in this order, the since-inception window,
\* one window for each full calendar year the subject's history spans and
\* for no partial year, the year-to-date window from 1 January of the last
\* year and the month-to-date window from the first day of the last month,
\* and every benchmark is evaluated on the window of its row.
C24_AsStated ==
    IsReturnsTable =>
        /\ FixedRows
        /\ Len(YearRows) = Cardinality(FullYears)
        /\ \A k \in 1..Len(YearRows) :
              /\ YearOf(YearRows[k].period.start) \in FullYears
              /\ WindowOf(YearRows[k])
                     = <<YearStart(YearOf(YearRows[k].period.start)),
                         YearEnd(YearOf(YearRows[k].period.start))>>
              /\ k > 1 => YearRows[k - 1].period.start < YearRows[k].period.start

\* C24, amended: between the since-inception row and the year-to-date row
\* there is one window for each calendar year before the last year of the
\* subject's history, in order; the window of the first year starts on the
\* subject's first date, every other on 1 January, and each ends on 31
\* December of its year.
C24_ReturnPeriods ==
    IsReturnsTable =>
        /\ FixedRows
        /\ Len(YearRows) = Cardinality(EarlierYears)
        /\ \A k \in 1..Len(YearRows) :
              WindowOf(YearRows[k])
                  = <<IF k = 1 THEN SubjectStart
                      ELSE YearStart(YearOf(SubjectStart) + k - 1),
                      YearEnd(YearOf(SubjectStart) + k - 1)>>

\* A table of a subject that starts within a year and ends two years
\* later, with a benchmark that has a return over the window of a year row.
C24_Witness ==
    /\ IsReturnsTable
    /\ Len(YearRows) = 2
    /\ SubjectStart > YearStart(YearOf(SubjectStart))
    /\ \E k \in 1..Len(YearRows) :
          /\ ColumnName("000300") \in DOMAIN YearRows[k].index
          /\ YearRows[k].index[ColumnName("000300")] # None
          /\ YearRows[k].fund # None


\* A year-by-month grid with rows.
IsMonthlyGrid ==
    /\ call.op = "generate_monthly_returns_table"
    /\ result.status = "ok"
    /\ Len(result.rows) > 0

\* The rows of the years, and the row 'since inception' below them.
GridYearRows == SubSeq(result.rows, 1, Len(result.rows) - 1)

GridInceptionRow == result.rows[Len(result.rows)]

\* The product of 1 + the value of a field over the first k year rows.
RECURSIVE YearsCompounded(_, _)
YearsCompounded(field, k) ==
    IF k = 0 THEN One
    ELSE RatMul(YearsCompounded(field, k - 1), RatAdd(One, GridYearRows[k][field]))

\* C27 as stated: in the row 'since inception', 1 + the subject's return is
\* the product of 1 + the yearly subject return over the year rows, and
\* 1 + the benchmark return is the product of 1 + the yearly benchmark
\* return over the same year rows.
C27_AsStated ==
    IsMonthlyGrid =>
        /\ RatAdd(One, GridInceptionRow.yearly_return)
               = YearsCompounded("yearly_return", Len(GridYearRows))
        /\ GridInceptionRow.benchmark # NaN =>
               RatAdd(One, GridInceptionRow.benchmark)
                   = YearsCompounded("benchmark", Len(GridYearRows))


-----------------------------------------------------------------------------
(* The resampler: the two methods side by side.                             *)

\* The resampling of a series of unique ascending dates by cum_return at a
\* weekly, monthly, quarterly or yearly frequency.
IsCumReturnOfDaily ==
    /\ IsResample
    /\ call.input = "series"
    /\ MethodOfCall = "cum_return"
    /\ call.frequency \in Frequencies \ {"daily"}
    /\ Len(nav_series) > 0
    /\ Ascending(nav_series)

\* What method 'last' returns for the series and the rule of the call.
LastOfCall == ResampleLast(nav_series, RuleOfCall)

\* The last original value observed on or before a day.
LastValueUpTo(nav, d) ==
    nav[Highest({i \in 1..Len(nav) : nav[i].date <= d})].value

\* C28 as stated: for a non-empty daily series and a non-daily frequency, the
\* value method cum_return gives at every period end it outputs is the last
\* original value observed on or before that period end; it agrees with
\* method last on every period end both output; it outputs a period end only
\* if method last does; and its final value is the last original value.
C28_AsStated ==
    IsCumReturnOfDaily =>
        /\ \A j \in 1..Len(result) :
               /\ result[j].value = LastValueUpTo(nav_series, result[j].date)
               /\ HasDate(LastOfCall, result[j].date)
               /\ ValueOn(LastOfCall, result[j].date) = result[j].value
        /\ Len(result) > 0 =>
               result[Len(result)].value = nav_series[Len(nav_series)].value


-----------------------------------------------------------------------------
(* Composite synthesis: the three synthesizers side by side.                *)

IsCompositeCall ==
    call.op \in {"_build_composite_nav_from_db", "calculate_composite_index",
                 "FundAnalysisPipeline._build_composite_nav_from_db"}

\* Two composites have the same dates and the same values.
SameComposite(left, right) == left.series = right.series

\* C29 as stated: given the same components, weights and component series,
\* the synthesizer of the analyzer, the synthesizer of the pipeline and the
\* synthesizer of the fetcher return the same composite series, date by date
\* and value by value.
C29_AsStated ==
    IsCompositeCall =>
        /\ SameComposite(result,
               build_composite_nav_from_db(config, fund_db, call.composite_id))
        /\ SameComposite(result,
               pipeline_build_composite_nav_from_db(config, fund_db, call.composite_id))
        /\ SameComposite(result,
               calculate_composite_index(config, fund_db.index_daily_data,
                                         call.composite_id))


-----------------------------------------------------------------------------
(* The callers that turn an index identifier into a value series.          *)

\* The series _get_index_nav_series resolves an identifier to.
SeriesOfId(index_id) == get_index_nav_series(config, fund_db, index_id)

\* C30 as stated: the callers resolve an identifier to the same series.
\* _get_index_nav_series gives an identifier the series of the code it
\* resolves to; the benchmark lookup of the holding analysis reports the
\* same statistics for two identifiers of one series; and
\* analyze_index_performance at daily frequency has a record for every
\* identifier whose series, stored or synthesized, has two values.
C30_AsStated ==
    /\ call.op = "_get_index_nav_series" =>
           result = SeriesOfId(resolve_index_id(call.id))
    /\ (call.op = "analyze_fund_holding" /\ "benchmark_results" \in DOMAIN result) =>
           \A b1, b2 \in DOMAIN result.benchmark_results :
               SeriesOfId(b1) = SeriesOfId(b2) =>
                   /\ DOMAIN result.benchmark_results[b1]
                          = DOMAIN result.benchmark_results[b2]
                   /\ \A d \in DOMAIN result.benchmark_results[b1] :
                          result.benchmark_results[b1][d]
                              = result.benchmark_results[b2][d]
    /\ (call.op = "analyze_index_performance" /\ call.frequency = Some("daily")) =>
           (Len(SeriesOfId(call.id).series) >= 2 => DOMAIN result # {})

=============================================================================
